---------------------------- MODULE Spec2Model ----------------------------
(***************************************************************************)
(* Model of the ship-lens extraction scripts:                              *)
(*   scripts/extract_component_hp.py       catalog build, per-ship HP      *)
(*                                         extraction, merge into the JSON *)
(*                                         records                         *)
(*   src/extract_ship_parts_comprehensive.py   hardpoint classification    *)
(*                                         and per-ship aggregation        *)
(*                                                                         *)
(* Names (port names, entity class names, file stems) are sequences of     *)
(* tokens: 'hardpoint_thruster_main' is <<"hardpoint","_","thruster",      *)
(* "_","main">>, 'powerplant' is <<"power","plant">>.  Python's            *)
(* `kw in name` is containment of a contiguous token sequence.             *)
(* A Python dict that the code iterates is a sequence of [k, v] records    *)
(* with unique keys, in insertion order.                                   *)
(* Resistance multipliers are held in tenths (0.8 is 8, 1.0 is 10).        *)
(***************************************************************************)
EXTENDS Integers, Sequences, FiniteSets, TLC

VARIABLES
    \* ---- extract_component_hp.py: update_ship_json_files ----
    ship_json,      \* persisted record of every vehicle (the *.json files)
    ship_xml,       \* vehicle source of every vehicle (the ship XML files)
    run,            \* number of runs of main() started
    idx,            \* position of the `for json_path in ship_json_files` loop
    changed,        \* the `changed` flag of each vehicle's merge in this run
    written,        \* whether json.dump was called for the vehicle in this run
    outcome,        \* which branch the loop body took for the vehicle in this run
    summary,        \* [updated, skipped] counts printed by each completed run
    \* ---- one call of a function of the scripts ----
    args,           \* the inputs of the call
    result,         \* what the call returned
    pc              \* "idle": no call in this behaviour, "ready", "done"

mergeVars == <<ship_json, ship_xml, run, idx, changed, written, outcome, summary>>

callVars == <<args, result, pc>>

vars == <<ship_json, ship_xml, run, idx, changed, written, outcome, summary,
          args, result, pc>>

(***************************************************************************)
(* Strings and dicts                                                       *)
(***************************************************************************)

\* dict.get(key) on a missing key (and JSON null): Python's None.
NoVal == -1

\* Python `sub in s` on names.
Contains(sub, s) ==
    \E i \in 0..(Len(s) - Len(sub)) : SubSeq(s, i + 1, i + Len(sub)) = sub

\* str.lower() on one token.
LowerTok(t) ==
    CASE t = "Turret"   -> "turret"
      [] t = "THRUSTER" -> "thruster"
      [] t = "Main"     -> "main"
      [] t = "ARMR"     -> "armr"
      [] t = "THR"      -> "thr"
      [] t = "G1"       -> "g1"
      [] t = "KLWE"     -> "klwe"
      [] t = "Mount"    -> "mount"
      [] t = "AEGS"     -> "aegs"
      [] t = "MRCK"     -> "mrck"
      [] t = "MISL"     -> "misl"
      [] t = "S02"      -> "s02"
      [] t = "S09"      -> "s09"
      [] OTHER          -> t

\* str.lower() on a name.
Lower(s) == [i \in DOMAIN s |-> LowerTok(s[i])]

\* key in d
DictHas(d, key) == \E i \in DOMAIN d : d[i].k = key

\* d.get(key, default)
DictGet(d, key, default) ==
    IF DictHas(d, key)
    THEN d[CHOOSE i \in DOMAIN d : d[i].k = key].v
    ELSE default

\* d[key] = value: an existing key keeps its position, a new key goes last.
DictSet(d, key, value) ==
    IF DictHas(d, key)
    THEN [i \in DOMAIN d |-> IF d[i].k = key THEN [k |-> key, v |-> value] ELSE d[i]]
    ELSE Append(d, [k |-> key, v |-> value])

RECURSIVE SumSeq(_)
SumSeq(s) == IF s = <<>> THEN 0 ELSE Head(s) + SumSeq(Tail(s))


(***************************************************************************)
(* extract_component_hp.py: the component catalog                          *)
(***************************************************************************)

\* The all-zero "empty" GUID.
ZeroGuid == "00000000-0000-0000-0000-000000000000"

\* int(float(text)) of a Health attribute given in tenths: truncation toward zero.
IntOfFloat(tenths) ==
    IF tenths >= 0 THEN tenths \div 10 ELSE -((-tenths) \div 10)

\* One component XML file: its stem, the root's __ref, the Health attribute
\* (tag "none": no SHealthComponentParams/Health, "num": a number in tenths,
\* "junk": not a number) and whether ET.parse succeeds.
ComponentFile(name, guid, tag, tenths, ok) ==
    [name |-> name, guid |-> guid, health |-> [tag |-> tag, t |-> tenths], ok |-> ok]

\* Variant: the __ref is stored whenever it is not empty.
BuildOneFileKeepSentinel(acc, f) ==
    IF ~f.ok THEN acc
    ELSE LET g1 == IF f.guid # ""
                   THEN DictSet(acc.guid_lookup, LowerTok(f.guid), Lower(f.name))
                   ELSE acc.guid_lookup
         IN  IF f.health.tag = "num"
             THEN [component_hp |-> DictSet(acc.component_hp, Lower(f.name),
                                            IntOfFloat(f.health.t)),
                   guid_lookup  |-> g1]
             ELSE [component_hp |-> acc.component_hp, guid_lookup |-> g1]

\* The body of the try block for one file, on the pair of lookups built so far.
BuildOneFile(acc, f) ==
    IF ~f.ok THEN acc
    ELSE LET g1 == IF f.guid # "" /\ f.guid # ZeroGuid
                   THEN DictSet(acc.guid_lookup, LowerTok(f.guid), Lower(f.name))
                   ELSE acc.guid_lookup
         IN  IF f.health.tag = "num"
             THEN [component_hp |-> DictSet(acc.component_hp, Lower(f.name),
                                            IntOfFloat(f.health.t)),
                   guid_lookup  |-> g1]
             ELSE [component_hp |-> acc.component_hp, guid_lookup |-> g1]

RECURSIVE BuildFrom(_, _)
BuildFrom(acc, files) ==
    IF files = <<>> THEN acc
    ELSE BuildFrom(BuildOneFile(acc, Head(files)), Tail(files))

\* build_component_hp_lookup over the files in directory traversal order.
build_component_hp_lookup(files) ==
    BuildFrom([component_hp |-> <<>>, guid_lookup |-> <<>>], files)

(***************************************************************************)
(* extract_component_hp.py: HP totals of one ship                          *)
(***************************************************************************)

\* hp_totals' keys in the order of the dict literal.
HpKeys == <<"turret_total_hp", "powerplant_total_hp", "cooler_total_hp",
            "shield_gen_total_hp", "qd_total_hp", "thruster_total_hp">>

HpKeySet == {HpKeys[i] : i \in DOMAIN HpKeys}

ZeroTotals == [k \in HpKeySet |-> 0]

\* One SItemPortLoadoutEntryParams element.
LoadoutEntry(port, cls, ref) == [port |-> port, cls |-> cls, ref |-> ref]

\* The entity class of an entry after the GUID fallback ('' when there is none).
ResolveEntityClass(e, guid_lookup) ==
    IF e.cls # <<>> THEN e.cls
    ELSE IF e.ref # "" /\ e.ref # ZeroGuid
         THEN DictGet(guid_lookup, LowerTok(e.ref), <<>>)
         ELSE <<>>

\* The component type derived from the port name ("" for None).
ComponentType(port_name) ==
    LET p == Lower(port_name) IN
    IF Contains(<<"turret">>, p) THEN "turret_total_hp"
    ELSE IF Contains(<<"power", "plant">>, p) \/ Contains(<<"power", "_", "plant">>, p)
         THEN "powerplant_total_hp"
    ELSE IF Contains(<<"cooler">>, p) THEN "cooler_total_hp"
    ELSE IF Contains(<<"shield", "_", "generator">>, p)
            \/ Contains(<<"shield", "generator">>, p)
         THEN "shield_gen_total_hp"
    ELSE IF Contains(<<"quantum">>, p) \/ Contains(<<"quantum", "drive">>, p)
         THEN "qd_total_hp"
    ELSE IF Contains(<<"thruster">>, p) THEN "thruster_total_hp"
    ELSE ""

\* The loop body for one entry, on hp_totals and component_not_found so far.
ExtractOneEntry(acc, e, component_hp, guid_lookup) ==
    LET cls == ResolveEntityClass(e, guid_lookup)
        ct  == ComponentType(e.port)
    IN  IF cls = <<>> \/ ct = "" THEN acc
        ELSE IF DictHas(component_hp, Lower(cls))
             THEN [acc EXCEPT !.hp_totals[ct] = @ + DictGet(component_hp, Lower(cls), 0)]
             ELSE [acc EXCEPT !.component_not_found = Append(@, [cls |-> cls, port |-> e.port])]

RECURSIVE ExtractFrom(_, _, _, _)
ExtractFrom(acc, entries, component_hp, guid_lookup) ==
    IF entries = <<>> THEN acc
    ELSE ExtractFrom(ExtractOneEntry(acc, Head(entries), component_hp, guid_lookup),
                     Tail(entries), component_hp, guid_lookup)

\* The try block of extract_component_hp_from_ship: a ship XML that does not
\* parse leaves the initial all-zero totals.
ExtractShip(xml, component_hp, guid_lookup) ==
    LET acc0 == [hp_totals |-> ZeroTotals, component_not_found |-> <<>>] IN
    IF xml.kind # "ok" THEN acc0
    ELSE ExtractFrom(acc0, xml.entries, component_hp, guid_lookup)

\* extract_component_hp_from_ship returns hp_totals.
extract_component_hp_from_ship(xml, component_hp, guid_lookup) ==
    ExtractShip(xml, component_hp, guid_lookup).hp_totals

(***************************************************************************)
(* extract_component_hp.py: merge of the totals into the persisted record  *)
(***************************************************************************)

\* Keys a persisted record may hold inside "components" and "thrusters".
ComponentKeys == HpKeySet \cup {"armor_hp"}
ThrusterKeys  == {"total_hp", "main_hp"}

\* A JSON object of the record: absent from ship_data, null, or a dict whose
\* missing keys read NoVal.
JsonObject(kind, d) == [kind |-> kind, d |-> d]

EmptyComponents == [k \in ComponentKeys |-> NoVal]
EmptyThrusters  == [k \in ThrusterKeys |-> NoVal]

\* if 'components' not in ship_data: ship_data['components'] = {}; the same
\* for 'thrusters'.
EnsureObjectsReset(data) ==
    [data EXCEPT !.components = JsonObject("dict", EmptyComponents),
                 !.thrusters  = IF @.kind = "absent"
                                THEN JsonObject("dict", EmptyThrusters) ELSE @]

EnsureObjects(data) ==
    [data EXCEPT !.components = IF @.kind = "absent"
                                THEN JsonObject("dict", EmptyComponents) ELSE @,
                 !.thrusters  = IF @.kind = "absent"
                                THEN JsonObject("dict", EmptyThrusters) ELSE @]

\* if value > 0: only update if we found data
UpdateGuardNonNegative(value) == value >= 0

UpdateGuard(value) == value > 0

\* ship_data['thrusters'].get('total_hp') != value
ThrusterDiffersWrongKey(data, value) == NoVal # value

ThrusterDiffers(data, value) == data.thrusters.d["total_hp"] # value

\* The thruster_total_hp branch: the copy into thrusters.total_hp.  On a
\* thrusters value that is no dict, .get raises.
MergeThrustersNoFlag(st, value) ==
    IF st.data.thrusters.kind # "dict" THEN [st EXCEPT !.error = TRUE]
    ELSE IF ThrusterDiffers(st.data, value)
         THEN [st EXCEPT !.data.thrusters.d["total_hp"] = value]
         ELSE st

MergeThrusters(st, value) ==
    IF st.data.thrusters.kind # "dict" THEN [st EXCEPT !.error = TRUE]
    ELSE IF ThrusterDiffers(st.data, value)
         THEN [st EXCEPT !.data.thrusters.d["total_hp"] = value, !.changed = TRUE]
         ELSE st

\* One iteration of `for key, value in hp_totals.items()`.  On a components
\* value that is no dict, .get raises.
MergeKey(st, key, value) ==
    IF st.error \/ ~UpdateGuard(value) THEN st
    ELSE IF st.data.components.kind # "dict" THEN [st EXCEPT !.error = TRUE]
    ELSE LET s1 == IF st.data.components.d[key] # value
                   THEN [st EXCEPT !.data.components.d[key] = value, !.changed = TRUE]
                   ELSE st
         IN  IF key = "thruster_total_hp" THEN MergeThrusters(s1, value) ELSE s1

RECURSIVE MergeFrom(_, _, _)
MergeFrom(st, i, hp_totals) ==
    IF i > Len(HpKeys) THEN st
    ELSE MergeFrom(MergeKey(st, HpKeys[i], hp_totals[HpKeys[i]]), i + 1, hp_totals)

\* The try block up to `if changed`: json.load, the two objects ensured, the
\* loop over hp_totals.  error: an exception was raised (a record that is no
\* JSON, or a components/thrusters value that is no dict).
Merge(file, hp_totals) ==
    IF file.kind # "ok" THEN [data |-> file, changed |-> FALSE, error |-> TRUE]
    ELSE MergeFrom([data |-> EnsureObjects(file), changed |-> FALSE, error |-> FALSE],
                   1, hp_totals)

\* if changed: write
WriteAlways(st) == TRUE

WriteNeeded(st) == st.changed

(***************************************************************************)
(* Sample data of the update runs                                          *)
(***************************************************************************)

\* Runs of main() in one behaviour.
MaxRuns == 2

\* The *.json files in sorted order.
Vehicles == {1, 2}

\* The component tree, in COMPONENT_DIRS and os.walk order.
SampleFiles ==
    << ComponentFile(<<"powr", "_", "a">>,     "",   "num",  10, TRUE),
       ComponentFile(<<"cool", "_", "a">>,     "",   "num",  10, TRUE),
       ComponentFile(<<"shld", "_", "a">>,     "",   "num",  20, TRUE),
       ComponentFile(<<"qdrv", "_", "a">>,     "",   "num",  15, TRUE),
       ComponentFile(<<"THR", "_", "main">>,   "g3", "num",  20, TRUE),
       ComponentFile(<<"thr", "_", "retro">>,  ZeroGuid, "num", 10, TRUE),
       ComponentFile(<<"thr", "_", "nohp">>,   "g4", "none",  0, TRUE),
       ComponentFile(<<"turret", "_", "a">>,   "G1", "num",  25, TRUE),
       ComponentFile(<<"turret", "_", "bad">>, "g5", "num",  90, FALSE) >>

Catalog == build_component_hp_lookup(SampleFiles)

ShipXml(kind, entries) == [kind |-> kind, entries |-> entries]

\* Ship XML files: none found, one that does not parse, and loadouts.
SampleShipXmls ==
    { ShipXml("none", <<>>),
      ShipXml("bad", <<>>),
      ShipXml("ok", << LoadoutEntry(<<"hardpoint", "_", "seat">>, <<"seat", "_", "a">>, "") >>),
      ShipXml("ok", << LoadoutEntry(<<"hardpoint", "_", "Turret">>, <<"Turret", "_", "a">>, "") >>),
      ShipXml("ok", << LoadoutEntry(<<"hardpoint", "_", "thruster", "_", "main">>,
                                    <<"thr", "_", "main">>, ""),
                       LoadoutEntry(<<"hardpoint", "_", "thruster", "_", "retro">>,
                                    <<"thr", "_", "retro">>, "") >>),
      ShipXml("ok", << LoadoutEntry(<<"hardpoint", "_", "power", "plant">>,
                                    <<"powr", "_", "a">>, ""),
                       LoadoutEntry(<<"hardpoint", "_", "cooler">>, <<"cool", "_", "a">>, ""),
                       LoadoutEntry(<<"hardpoint", "_", "shield", "_", "generator">>,
                                    <<"shld", "_", "a">>, ""),
                       LoadoutEntry(<<"hardpoint", "_", "quantum", "drive">>,
                                    <<"qdrv", "_", "a">>, "") >>),
      ShipXml("ok", << LoadoutEntry(<<"hardpoint", "_", "turret">>, <<>>, "G1"),
                       LoadoutEntry(<<"hardpoint", "_", "thruster">>, <<>>, "g3"),
                       LoadoutEntry(<<"hardpoint", "_", "thruster", "_", "aux">>,
                                    <<"thr", "_", "unknown">>, "") >>) }

\* Values a record stores under a key before the first run.
StoredValues == {NoVal, 1, 2}

ShipRecord(kind, components, thrusters, weapon_hardpoints) ==
    [kind |-> kind, components |-> components, thrusters |-> thrusters,
     weapon_hardpoints |-> weapon_hardpoints]

ComponentsChoices ==
    { JsonObject("absent", EmptyComponents), JsonObject("null", EmptyComponents) }
    \cup { JsonObject("dict", [k \in ComponentKeys |-> IF k = "armor_hp" THEN 7 ELSE v])
           : v \in StoredValues \cup {0} }

ThrustersChoices ==
    { JsonObject("absent", EmptyThrusters), JsonObject("null", EmptyThrusters) }
    \cup { JsonObject("dict", [k \in ThrusterKeys |-> IF k = "main_hp" THEN 5 ELSE v])
           : v \in StoredValues }

\* Persisted records: a file that is no JSON, and records with and without
\* the two objects.
SampleRecords ==
    { ShipRecord("bad", JsonObject("absent", EmptyComponents),
                 JsonObject("absent", EmptyThrusters), 0) }
    \cup { ShipRecord("ok", c, t, 4) : c \in ComponentsChoices, t \in ThrustersChoices }

(***************************************************************************)
(* extract_component_hp.py: update_ship_json_files, run after run          *)
(***************************************************************************)

\* The totals of every sample ship XML under the catalog of the runs.
SampleTotals ==
    [x \in SampleShipXmls |->
        extract_component_hp_from_ship(x, Catalog.component_hp, Catalog.guid_lookup)]

\* hp_totals = extract_component_hp_from_ship(ship_xml_path, ...) of vehicle v
hp_totals(v) == SampleTotals[ship_xml[v]]

SumTotals(t) == SumSeq([i \in DOMAIN HpKeys |-> t[HpKeys[i]]])

Init ==
    /\ ship_json \in [Vehicles -> SampleRecords]
    /\ ship_xml \in [Vehicles -> SampleShipXmls]
    /\ run = 0
    /\ idx = 1
    /\ changed = [v \in Vehicles |-> "unset"]
    /\ written = [v \in Vehicles |-> FALSE]
    /\ outcome = [v \in Vehicles |-> "pending"]
    /\ summary = <<>>
    /\ args = "none"
    /\ result = "none"
    /\ pc = "idle"

\* main(): the catalog is built and the loop over the sorted *.json files starts.
StartRun ==
    /\ run < MaxRuns
    /\ run = 0 \/ idx > Cardinality(Vehicles)
    /\ run' = run + 1
    /\ idx' = 1
    /\ changed' = [v \in Vehicles |-> "unset"]
    /\ written' = [v \in Vehicles |-> FALSE]
    /\ outcome' = [v \in Vehicles |-> "pending"]
    /\ summary' = Append(summary, [updated |-> 0, skipped |-> 0])
    /\ UNCHANGED <<ship_json, ship_xml>>
    /\ UNCHANGED callVars

InLoop(v) == run > 0 /\ idx = v /\ v \in Vehicles

Skipped(v, why) ==
    /\ outcome' = [outcome EXCEPT ![v] = why]
    /\ summary' = [summary EXCEPT ![run].skipped = @ + 1]
    /\ idx' = idx + 1
    /\ UNCHANGED <<ship_json, ship_xml, run, changed, written>>
    /\ UNCHANGED callVars

\* find_ship_xml returned None.
SkipNoXml(v) ==
    /\ InLoop(v)
    /\ ship_xml[v].kind = "none"
    /\ Skipped(v, "skipped_noxml")

\* sum(hp_totals.values()) == 0
SkipNoData(v) ==
    /\ InLoop(v)
    /\ ship_xml[v].kind # "none"
    /\ SumTotals(hp_totals(v)) = 0
    /\ Skipped(v, "skipped_nodata")

Merging(v) ==
    /\ InLoop(v)
    /\ ship_xml[v].kind # "none"
    /\ SumTotals(hp_totals(v)) # 0

\* The try block raised: the except clause prints and the loop goes on.  The
\* merge gave no result, so no changed flag is recorded for the vehicle.
UpdateError(v) ==
    /\ Merging(v)
    /\ Merge(ship_json[v], hp_totals(v)).error
    /\ outcome' = [outcome EXCEPT ![v] = "error"]
    /\ idx' = idx + 1
    /\ UNCHANGED <<ship_json, ship_xml, run, changed, written, summary>>
    /\ UNCHANGED callVars

\* changed: json.dump of the merged record.
UpdateWrite(v) ==
    LET st == Merge(ship_json[v], hp_totals(v)) IN
    /\ Merging(v)
    /\ ~st.error
    /\ WriteNeeded(st)
    /\ ship_json' = [ship_json EXCEPT ![v] = st.data]
    /\ written' = [written EXCEPT ![v] = TRUE]
    /\ changed' = [changed EXCEPT ![v] = IF st.changed THEN "true" ELSE "false"]
    /\ outcome' = [outcome EXCEPT ![v] = "updated"]
    /\ summary' = [summary EXCEPT ![run].updated = @ + 1]
    /\ idx' = idx + 1
    /\ UNCHANGED <<ship_xml, run>>
    /\ UNCHANGED callVars

\* not changed: "No changes for ..."
UpdateNoChange(v) ==
    LET st == Merge(ship_json[v], hp_totals(v)) IN
    /\ Merging(v)
    /\ ~st.error
    /\ ~WriteNeeded(st)
    /\ changed' = [changed EXCEPT ![v] = IF st.changed THEN "true" ELSE "false"]
    /\ outcome' = [outcome EXCEPT ![v] = "nochange"]
    /\ idx' = idx + 1
    /\ UNCHANGED <<ship_json, ship_xml, run, written, summary>>
    /\ UNCHANGED callVars

Next ==
    \/ StartRun
    \/ \E v \in Vehicles : SkipNoXml(v)
    \/ \E v \in Vehicles : SkipNoData(v)
    \/ \E v \in Vehicles : UpdateError(v)
    \/ \E v \in Vehicles : UpdateWrite(v)
    \/ \E v \in Vehicles : UpdateNoChange(v)

Spec == Init /\ [][Next]_vars

(***************************************************************************)
(* extract_ship_parts_comprehensive.py: the part catalogs                  *)
(***************************************************************************)

\* str.replace(sub, ''): every occurrence of sub, left to right, is removed.
RECURSIVE RemoveAll(_, _)
RemoveAll(s, sub) ==
    IF Len(s) < Len(sub) \/ sub = <<>> THEN s
    ELSE IF SubSeq(s, 1, Len(sub)) = sub
         THEN RemoveAll(SubSeq(s, Len(sub) + 1, Len(s)), sub)
         ELSE <<Head(s)>> \o RemoveAll(Tail(s), sub)

\* The resistance multipliers load_armor_data reads.
ResistKinds == {"resist_physical", "resist_energy", "resist_distortion",
                "resist_thermal", "resist_biochemical", "resist_stun"}

\* One part XML file: its stem, whether read_text succeeds, its first Health
\* attribute (tag "none" when there is none, else a number in tenths) and its
\* resistance multipliers in tenths (NoVal: no such Multiplier attribute).
PartFile(stem, readable, tag, tenths, resist) ==
    [stem |-> stem, readable |-> readable, health |-> [tag |-> tag, t |-> tenths],
     resist |-> resist]

NoResist == [r \in ResistKinds |-> NoVal]

\* extract_value(content, r'Health="(\d+(?:\.\d+)?)"'): the digits matched, or
\* None (NoVal); a signed number is no match.
HealthMatch(f) ==
    IF f.health.tag = "num" /\ f.health.t >= 0 THEN f.health.t ELSE NoVal

\* Variant: a multiplier of zero taken for a missing one (`or '1.0'`).
ResistValueZeroAsAbsent(f, r) == IF f.resist[r] \in {NoVal, 0} THEN 10 ELSE f.resist[r]

\* extract_value(content, r'...Resistance[^>]*Multiplier="([\d.]+)"', '1.0')
\* and float() of it, in tenths.
ResistValue(f, r) == IF f.resist[r] = NoVal THEN 10 ELSE f.resist[r]

\* The loop body of load_armor_data.
LoadArmorFile(armor_data, f) ==
    IF ~f.readable \/ HealthMatch(f) = NoVal THEN armor_data
    ELSE LET filename == Lower(f.stem)
             rec == [health |-> IntOfFloat(HealthMatch(f)),
                     resist |-> [r \in ResistKinds |-> ResistValue(f, r)]]
             clean_name == RemoveAll(RemoveAll(filename, <<"armr", "_">>), <<"_", "scitem">>)
         IN  DictSet(DictSet(armor_data, filename, rec), clean_name, rec)

\* The loop body of load_thruster_data, load_turret_data and (per component
\* type) load_component_data: the health under the stem and under the stem
\* without '_scitem'.
LoadHealthFile(data, f) ==
    IF ~f.readable \/ HealthMatch(f) = NoVal THEN data
    ELSE LET filename == Lower(f.stem)
             clean_name == RemoveAll(filename, <<"_", "scitem">>)
             health == IntOfFloat(HealthMatch(f))
         IN  DictSet(DictSet(data, filename, health), clean_name, health)

RECURSIVE LoadArmorFrom(_, _)
LoadArmorFrom(armor_data, files) ==
    IF files = <<>> THEN armor_data
    ELSE LoadArmorFrom(LoadArmorFile(armor_data, Head(files)), Tail(files))

RECURSIVE LoadHealthFrom(_, _)
LoadHealthFrom(data, files) ==
    IF files = <<>> THEN data
    ELSE LoadHealthFrom(LoadHealthFile(data, Head(files)), Tail(files))

load_armor_data(files) == LoadArmorFrom(<<>>, files)

load_thruster_data(files) == LoadHealthFrom(<<>>, files)

load_turret_data(files) == LoadHealthFrom(<<>>, files)

\* tree: the files of the four component directories.
load_component_data(tree) ==
    [powerplant      |-> LoadHealthFrom(<<>>, tree.powerplant),
     cooler          |-> LoadHealthFrom(<<>>, tree.cooler),
     shieldgenerator |-> LoadHealthFrom(<<>>, tree.shieldgenerator),
     quantumdrive    |-> LoadHealthFrom(<<>>, tree.quantumdrive)]

(***************************************************************************)
(* extract_ship_parts_comprehensive.py: hardpoint mapping and categories   *)
(***************************************************************************)

\* One (itemPortName, entityClassName) pair of the ship file, as written.
RawEntry(port, cls) == [port |-> port, cls |-> cls]

\* The regex needs a non-empty port and a non-empty entity class; the dict is
\* keyed by the lower-cased port name.
MapOneEntry(mappings, e) ==
    IF e.port = <<>> \/ e.cls = <<>> THEN mappings
    ELSE DictSet(mappings, Lower(e.port), Lower(e.cls))

RECURSIVE MapFrom(_, _)
MapFrom(mappings, entries) ==
    IF entries = <<>> THEN mappings
    ELSE MapFrom(MapOneEntry(mappings, Head(entries)), Tail(entries))

extract_hardpoint_mappings(entries) == MapFrom(<<>>, entries)

CategoryNames == <<"thrusters", "turrets", "armor", "powerplant", "cooler", "shield",
                   "quantumdrive", "weapons", "missiles", "other">>

CategorySet == {CategoryNames[i] : i \in DOMAIN CategoryNames}

EmptyCategories == [c \in CategorySet |-> <<>>]

\* categories[c].append((port_name, entity_class))
PutIn(categories, c, port_name, entity_class) ==
    [categories EXCEPT ![c] = Append(@, [k |-> port_name, v |-> entity_class])]

Has(kw, name) == Contains(<<kw>>, name)

\* The chain from the second test on.
CategorizeRest(categories, port_name, entity_class) ==
    IF Has("turret", port_name) \/ Has("turret", entity_class)
    THEN PutIn(categories, "turrets", port_name, entity_class)
    ELSE IF Has("armor", port_name) \/ Contains(<<"armr", "_">>, entity_class)
    THEN PutIn(categories, "armor", port_name, entity_class)
    ELSE IF Has("power", port_name)
    THEN PutIn(categories, "powerplant", port_name, entity_class)
    ELSE IF Has("cooler", port_name)
    THEN PutIn(categories, "cooler", port_name, entity_class)
    ELSE IF Has("shield", port_name)
    THEN PutIn(categories, "shield", port_name, entity_class)
    ELSE IF Has("quantum", port_name)
    THEN PutIn(categories, "quantumdrive", port_name, entity_class)
    ELSE IF Has("weapon", port_name) \/ Has("gun", port_name)
    THEN PutIn(categories, "weapons", port_name, entity_class)
    ELSE IF Has("missile", port_name) \/ Has("pylon", port_name)
    THEN PutIn(categories, "missiles", port_name, entity_class)
    ELSE PutIn(categories, "other", port_name, entity_class)

\* Variant: the turret test written as a new `if`, not `elif`.
CategorizeOneNoElif(categories, port_name, entity_class) ==
    CategorizeRest(IF Has("thruster", port_name) \/ Has("thruster", entity_class)
                   THEN PutIn(categories, "thrusters", port_name, entity_class)
                   ELSE categories,
                   port_name, entity_class)

\* Variant: the turret test placed before the thruster test.
CategorizeOneTurretFirst(categories, port_name, entity_class) ==
    IF Has("turret", port_name) \/ Has("turret", entity_class)
    THEN PutIn(categories, "turrets", port_name, entity_class)
    ELSE IF Has("thruster", port_name) \/ Has("thruster", entity_class)
    THEN PutIn(categories, "thrusters", port_name, entity_class)
    ELSE CategorizeRest(categories, port_name, entity_class)

\* The if/elif chain for one item of the mapping.
CategorizeOne(categories, port_name, entity_class) ==
    IF Has("thruster", port_name) \/ Has("thruster", entity_class)
    THEN PutIn(categories, "thrusters", port_name, entity_class)
    ELSE CategorizeRest(categories, port_name, entity_class)

RECURSIVE CategorizeFrom(_, _)
CategorizeFrom(categories, mappings) ==
    IF mappings = <<>> THEN categories
    ELSE CategorizeFrom(CategorizeOne(categories, Head(mappings).k, Head(mappings).v),
                        Tail(mappings))

categorize_hardpoints(mappings) == CategorizeFrom(EmptyCategories, mappings)

(***************************************************************************)
(* extract_ship_parts_comprehensive.py: process_all_ships, one ship file   *)
(*                                                                         *)
(* Beside the fields of the `ship` dict the result keeps the locals        *)
(* hardpoint_mappings and categorized, and two records of what the loops   *)
(* did: `added` (one element per `+=` on a total: the port and the total)  *)
(* and `lookups` (how each armor and thruster lookup was answered).        *)
(***************************************************************************)

\* The first of a set of indices (the iteration stops at `break`), 0 when
\* there is none.
FirstKey(hits) ==
    IF hits = {} THEN 0
    ELSE CHOOSE i \in hits : \A j \in hits : i <= j

\* `for port_name, entity_class in categorized['armor']`: the first entity
\* that is a key of armor_data, 0 when there is none.
FirstArmorEntry(armor_list, armor_data) ==
    LET InData(e) == DictHas(armor_data, e)
        hits == {i \in DOMAIN armor_list : InData(armor_list[i].v)}
    IN  IF hits = {} THEN 0
        ELSE CHOOSE i \in hits : \A j \in hits : i <= j

\* `for armor_key in armor_data.keys()`: the first key that, with every '_'
\* removed, contains the ship's file name or is contained in it.
ArmorKeyByShipName(filename, armor_data) ==
    LET ship_parts == RemoveAll(Lower(filename), <<"_">>)
        Match(armor_key) ==
            LET armor_parts == RemoveAll(armor_key, <<"_">>)
            IN  Contains(ship_parts, armor_parts) \/ Contains(armor_parts, ship_parts)
    IN  FirstKey({i \in DOMAIN armor_data : Match(armor_data[i].k)})

NoArmor == [health |-> 0, resist |-> [r \in ResistKinds |-> 10]]

\* Lines 313-339: armor HP and resistances of the ship.
ArmorOf(filename, armor_list, armor_data) ==
    LET i     == FirstArmorEntry(armor_list, armor_data)
        exact == IF i = 0 THEN NoArmor ELSE DictGet(armor_data, armor_list[i].v, NoArmor)
        j     == IF exact.health = 0 THEN ArmorKeyByShipName(filename, armor_data) ELSE 0
    IN  [rec    |-> IF j = 0 THEN exact ELSE armor_data[j].v,
         exact  |-> i # 0,
         approx |-> j # 0,
         key    |-> IF j # 0 THEN armor_data[j].k
                    ELSE IF i # 0 THEN armor_list[i].v ELSE <<>>]

\* `for thruster_key in thruster_data.keys()`: the first key that contains
\* the entity name or is contained in it.
ThrusterKeyByPattern(entity_lower, thruster_data) ==
    LET Match(thruster_key) ==
            Contains(entity_lower, thruster_key) \/ Contains(thruster_key, entity_lower)
    IN  FirstKey({i \in DOMAIN thruster_data : Match(thruster_data[i].k)})

\* Lines 349-360: the lookup of one thruster entity.
ThrusterLookup(entity_lower, thruster_data) ==
    IF DictHas(thruster_data, entity_lower)
    THEN [hp |-> DictGet(thruster_data, entity_lower, 0), via |-> "exact",
          key |-> entity_lower]
    ELSE LET j == ThrusterKeyByPattern(entity_lower, thruster_data)
         IN  IF j = 0 THEN [hp |-> 0, via |-> "none", key |-> <<>>]
             ELSE [hp |-> thruster_data[j].v, via |-> "approx", key |-> thruster_data[j].k]

\* Variant: a thruster with none of the keywords falls in the retro subtotal.
ThrusterSubtotalRetroDefault(port_name, entity_lower) ==
    IF Has("main", Lower(port_name)) \/ Has("main", entity_lower) THEN "thruster_main_hp"
    ELSE IF Has("vtol", Lower(port_name)) \/ Has("vtol", entity_lower)
    THEN "thruster_vtol_hp"
    ELSE "thruster_retro_hp"

\* Lines 364-371: the subtotal a counted thruster is added to.
ThrusterSubtotal(port_name, entity_lower) ==
    IF Has("main", Lower(port_name)) \/ Has("main", entity_lower) THEN "thruster_main_hp"
    ELSE IF Has("retro", Lower(port_name)) \/ Has("retro", entity_lower)
    THEN "thruster_retro_hp"
    ELSE IF Has("vtol", Lower(port_name)) \/ Has("vtol", entity_lower)
    THEN "thruster_vtol_hp"
    ELSE "thruster_mav_hp"

\* Variant: `=` written for `+=`.
AddToAssign(acc, total, port_name, hp) ==
    [acc EXCEPT !.totals[total] = hp,
                !.added = Append(@, [port |-> port_name, total |-> total])]

\* total += hp, with its entry in `added`.
AddTo(acc, total, port_name, hp) ==
    [acc EXCEPT !.totals[total] = @ + hp,
                !.added = Append(@, [port |-> port_name, total |-> total])]

Count(acc, count) == [acc EXCEPT !.totals[count] = @ + 1]

\* The body of the thruster loop.
ThrusterStep(acc, port_name, entity_class, thruster_data) ==
    LET entity_lower == Lower(entity_class)
        found == ThrusterLookup(entity_lower, thruster_data)
        acc1 == [acc EXCEPT !.lookups = Append(@, [port |-> port_name, entity |-> entity_lower,
                                                   via |-> found.via, key |-> found.key])]
    IN  IF found.hp > 0
        THEN AddTo(Count(acc1, "thruster_count"),
                   ThrusterSubtotal(port_name, entity_lower), port_name, found.hp)
        ELSE acc1

\* The body of the turret loop.
TurretStep(acc, port_name, entity_class, turret_data) ==
    LET entity_lower == Lower(entity_class) IN
    IF DictHas(turret_data, entity_lower)
    THEN Count(AddTo(acc, "turret_total_hp", port_name, DictGet(turret_data, entity_lower, 0)),
               "turret_count")
    ELSE acc

\* The body of the powerplant, cooler, shield and quantum drive loops.
ComponentStep(acc, port_name, entity_class, data, total, count) ==
    LET entity_lower == Lower(entity_class)
        hp0 == DictGet(data, entity_lower, 0)
        hp  == IF hp0 = 0
               THEN DictGet(data, RemoveAll(entity_lower, <<"_", "scitem">>), 0)
               ELSE hp0
    IN  IF hp > 0 THEN Count(AddTo(acc, total, port_name, hp), count) ELSE acc

RECURSIVE ThrusterLoop(_, _, _)
ThrusterLoop(acc, list, thruster_data) ==
    IF list = <<>> THEN acc
    ELSE ThrusterLoop(ThrusterStep(acc, Head(list).k, Head(list).v, thruster_data),
                      Tail(list), thruster_data)

RECURSIVE TurretLoop(_, _, _)
TurretLoop(acc, list, turret_data) ==
    IF list = <<>> THEN acc
    ELSE TurretLoop(TurretStep(acc, Head(list).k, Head(list).v, turret_data),
                    Tail(list), turret_data)

RECURSIVE ComponentLoop(_, _, _, _, _)
ComponentLoop(acc, list, data, total, count) ==
    IF list = <<>> THEN acc
    ELSE ComponentLoop(ComponentStep(acc, Head(list).k, Head(list).v, data, total, count),
                       Tail(list), data, total, count)

TotalNames == {"thruster_main_hp", "thruster_retro_hp", "thruster_mav_hp", "thruster_vtol_hp",
               "thruster_count", "turret_total_hp", "turret_count",
               "powerplant_total_hp", "powerplant_count", "cooler_total_hp", "cooler_count",
               "shield_gen_total_hp", "shield_gen_count", "qd_total_hp", "qd_count"}

\* One ship file: its stem, whether read_text succeeds, whether the content
\* holds 'VehicleComponentParams', the text of
\* vehicleHullDamageNormalizationValue ("" when there is none) and its
\* (itemPortName, entityClassName) pairs in file order.
ShipFile(stem, readable, vehicle, hull, entries) ==
    [stem |-> stem, readable |-> readable, vehicle |-> vehicle, hull |-> hull,
     entries |-> entries]

\* The four lookups process_all_ships is given.
PartData(armor_data, thruster_data, turret_data, component_data) ==
    [armor_data |-> armor_data, thruster_data |-> thruster_data,
     turret_data |-> turret_data, component_data |-> component_data]

\* Lines 264-289: the file is left out.
ShipSkipped(f) ==
    \/ ~f.readable
    \/ \E x \in {"template", "test", "unmanned"} : Has(x, Lower(f.stem))
    \/ ~f.vehicle
    \/ f.hull \in {"", "0"}

\* The totals and counts as the loop body finds them: what the iteration
\* before left in the function's local variables (zeros before the first).
NoLocals == [totals |-> [t \in TotalNames |-> 0], added |-> <<>>, lookups |-> <<>>]

\* Variant: the totals and counts are not set back at the top of the body.
ResetCountersKeep(locals) == locals

\* Lines 342-346, 374-375, 384-385, 395-396, 406-407, 417-418: every total
\* and count is bound to 0 before its loop.
ResetCounters(locals) ==
    [totals |-> [t \in TotalNames |-> 0], added |-> <<>>, lookups |-> <<>>]

\* The body of `for xml_file in sorted(SHIPS_DIR.glob("*.xml"))` for one file,
\* entered with the local variables of the iteration before.
ProcessShipAfter(f, data, locals) ==
    IF ShipSkipped(f) THEN [kind |-> "skipped", filename |-> f.stem]
    ELSE
    LET hardpoint_mappings == extract_hardpoint_mappings(f.entries)
        categorized == categorize_hardpoints(hardpoint_mappings)
        armor == ArmorOf(f.stem, categorized["armor"], data.armor_data)
        a0 == ResetCounters(locals)
        a1 == ThrusterLoop(a0, categorized["thrusters"], data.thruster_data)
        a2 == TurretLoop(a1, categorized["turrets"], data.turret_data)
        a3 == ComponentLoop(a2, categorized["powerplant"], data.component_data.powerplant,
                            "powerplant_total_hp", "powerplant_count")
        a4 == ComponentLoop(a3, categorized["cooler"], data.component_data.cooler,
                            "cooler_total_hp", "cooler_count")
        a5 == ComponentLoop(a4, categorized["shield"], data.component_data.shieldgenerator,
                            "shield_gen_total_hp", "shield_gen_count")
        a6 == ComponentLoop(a5, categorized["quantumdrive"], data.component_data.quantumdrive,
                            "qd_total_hp", "qd_count")
    IN  [kind |-> "ship",
         filename |-> f.stem,
         armor_hp |-> armor.rec.health,
         armor_resist_physical |-> armor.rec.resist["resist_physical"],
         armor_resist_energy |-> armor.rec.resist["resist_energy"],
         armor_resist_distortion |-> armor.rec.resist["resist_distortion"],
         totals |-> a6.totals,
         thruster_total_hp |-> a6.totals["thruster_main_hp"] + a6.totals["thruster_retro_hp"]
                               + a6.totals["thruster_mav_hp"] + a6.totals["thruster_vtol_hp"],
         weapon_hardpoints |-> Len(categorized["weapons"]),
         missile_hardpoints |-> Len(categorized["missiles"]),
         total_hardpoints |-> Len(hardpoint_mappings),
         hardpoint_mappings |-> hardpoint_mappings,
         categorized |-> categorized,
         added |-> a6.added,
         lookups |-> a6.lookups,
         armor_lookup |-> [exact |-> armor.exact, approx |-> armor.approx, key |-> armor.key]]

\* The body of the loop for the first file.
ProcessShip(f, data) == ProcessShipAfter(f, data, NoLocals)

(***************************************************************************)
(* Properties of the merge (specification Spec)                            *)
(***************************************************************************)

LastVehicleDone == run > 0 /\ idx > Cardinality(Vehicles)

\* C1 (idempotence): in every run after the first, on the same catalog and the
\* same vehicle sources, no vehicle's merge yields changed = true and no
\* persisted record is written.
C1_SecondRunChangesNothing ==
    run >= 2 => \A v \in Vehicles : changed[v] # "true" /\ ~written[v]

\* A second run has completed with a "No changes" vehicle after a first run
\* that updated a record.
C1_Witness ==
    /\ run = 2
    /\ LastVehicleDone
    /\ summary[1].updated > 0
    /\ \E v \in Vehicles : outcome[v] = "nochange" /\ changed[v] = "false"

\* C2 (conservative merge): in every step, and so after any number of merges,
\* a key whose computed total is zero and whose stored value is non-zero keeps
\* that stored value, in components and in thrusters.total_hp.
C2_ZeroTotalKeepsStored ==
    [][\A v \in Vehicles :
         /\ \A k \in HpKeySet :
              (hp_totals(v)[k] = 0 /\ ship_json[v].components.d[k] \notin {NoVal, 0})
                 => ship_json'[v].components.d[k] = ship_json[v].components.d[k]
         /\ (hp_totals(v)["thruster_total_hp"] = 0
               /\ ship_json[v].thrusters.d["total_hp"] \notin {NoVal, 0})
              => ship_json'[v].thrusters.d["total_hp"] = ship_json[v].thrusters.d["total_hp"]
      ]_vars

\* A record was written by a merge and still holds a non-zero value under a
\* key whose computed total is zero.
C2_Witness ==
    \E v \in Vehicles :
        /\ outcome[v] = "updated"
        /\ \E k \in HpKeySet :
              hp_totals(v)[k] = 0 /\ ship_json[v].components.d[k] \notin {NoVal, 0}

\* Some value the merge compares differs from the computed total.
SomeComparedDiffers(rec, t) ==
    \/ \E k \in HpKeySet : t[k] > 0 /\ rec.components.d[k] # t[k]
    \/ t["thruster_total_hp"] > 0 /\ rec.thrusters.d["total_hp"] # t["thruster_total_hp"]

\* C3 (merge result and changed flag): when a vehicle's merge completes, every
\* key with a strictly positive computed total stores that total afterwards
\* (thrusters.total_hp too), and changed is true exactly when a compared
\* stored value differed from the computed total before the merge.
C3_MergeResultAndFlag ==
    [][\A v \in Vehicles :
         (outcome[v] = "pending" /\ outcome'[v] \in {"updated", "nochange"}) =>
            /\ \A k \in HpKeySet :
                 hp_totals(v)[k] > 0 => ship_json'[v].components.d[k] = hp_totals(v)[k]
            /\ hp_totals(v)["thruster_total_hp"] > 0
                 => ship_json'[v].thrusters.d["total_hp"] = hp_totals(v)["thruster_total_hp"]
            /\ (changed'[v] = "true") <=> SomeComparedDiffers(ship_json[v], hp_totals(v))
            /\ changed'[v] \in {"true", "false"}
      ]_vars

\* One vehicle was merged with changed = true and one with changed = false.
C3_Witness ==
    \E v, w \in Vehicles :
        /\ outcome[v] = "updated" /\ changed[v] = "true"
        /\ hp_totals(v)["thruster_total_hp"] > 0
        /\ outcome[w] = "nochange" /\ changed[w] = "false"

\* C4 (frame): no step changes a record's other top-level field, nor, inside a
\* components or thrusters object the record had, any key other than the six
\* *_total_hp keys and total_hp; a file that is no JSON and an object that is
\* null stay as they are.
C4_OtherFieldsKept ==
    [][\A v \in Vehicles :
         /\ ship_json'[v].kind = ship_json[v].kind
         /\ ship_json'[v].weapon_hardpoints = ship_json[v].weapon_hardpoints
         /\ ship_json[v].components.kind = "dict"
              => /\ ship_json'[v].components.kind = "dict"
                 /\ ship_json'[v].components.d["armor_hp"]
                        = ship_json[v].components.d["armor_hp"]
         /\ ship_json[v].thrusters.kind = "dict"
              => /\ ship_json'[v].thrusters.kind = "dict"
                 /\ ship_json'[v].thrusters.d["main_hp"] = ship_json[v].thrusters.d["main_hp"]
         /\ ship_json[v].components.kind = "null" => ship_json'[v].components.kind = "null"
         /\ ship_json[v].thrusters.kind = "null" => ship_json'[v].thrusters.kind = "null"
      ]_vars

\* A record that had both objects was written and still holds its other keys.
C4_Witness ==
    \E v \in Vehicles :
        /\ outcome[v] = "updated"
        /\ ship_json[v].weapon_hardpoints = 4
        /\ ship_json[v].components.d["armor_hp"] = 7
        /\ ship_json[v].thrusters.d["main_hp"] = 5

\* C5 (write only on change): a record is written, or differs after a step,
\* only when the vehicle's merge gave changed = true; a vehicle whose totals
\* are all zero or whose compared values all matched keeps its record.
C5_WriteOnlyOnChange ==
    [][\A v \in Vehicles :
         /\ (written'[v] /\ ~written[v]) => changed'[v] = "true"
         /\ ship_json'[v] # ship_json[v] => (changed'[v] = "true" /\ written'[v])
         /\ (/\ outcome[v] = "pending" /\ outcome'[v] # "pending"
             /\ \/ SumTotals(hp_totals(v)) = 0
                \/ ~SomeComparedDiffers(ship_json[v], hp_totals(v)))
              => (ship_json'[v] = ship_json[v] /\ written'[v] = FALSE)
      ]_vars

\* A run ended with one vehicle left unwritten for lack of change, one skipped
\* for all-zero totals or written.
C5_Witness ==
    /\ LastVehicleDone
    /\ \E v, w \in Vehicles :
          /\ outcome[v] = "nochange" /\ ~written[v]
          /\ outcome[w] \in {"skipped_nodata", "updated"}

(***************************************************************************)
(* One call of categorize_hardpoints on a single hardpoint                 *)
(* (specification SpecClassify)                                            *)
(***************************************************************************)

\* Longest port name, in tokens, given to categorize_hardpoints.
MaxPortLen == 2

\* Non-empty sequences over S of length at most n.
NamesUpTo(S, n) == UNION {[1..k -> S] : k \in 1..n}

PortTokens == {"hardpoint", "thruster", "turret", "armor", "power", "cooler", "shield",
               "quantum", "weapon", "gun", "missile", "pylon"}

ClassifyEntities ==
    { <<"laser">>, <<"thruster">>, <<"turret">>, <<"armr">>, <<"armr", "_", "light">>,
      <<"x", "armr", "_">>, <<"thr", "_", "main">>, <<"turret", "_", "thruster">> }

\* No run of the updater in this behaviour.
NoRuns ==
    /\ ship_json = <<>>
    /\ ship_xml = <<>>
    /\ run = 0
    /\ idx = 0
    /\ changed = <<>>
    /\ written = <<>>
    /\ outcome = <<>>
    /\ summary = <<>>

InitClassify ==
    /\ NoRuns
    /\ args \in [port : NamesUpTo(PortTokens, MaxPortLen), entity : ClassifyEntities]
    /\ result = "none"
    /\ pc = "ready"

\* categorize_hardpoints({port: entity})
Classify ==
    /\ pc = "ready"
    /\ result' = categorize_hardpoints(<<[k |-> args.port, v |-> args.entity]>>)
    /\ pc' = "done"
    /\ UNCHANGED <<args, mergeVars>>

NextClassify == Classify

SpecClassify == InitClassify /\ [][NextClassify]_vars

\* The i-th rule of the claimed order, on a port name and an entity id.
RuleMatches(i, p, e) ==
    CASE i = 1 -> Has("thruster", p) \/ Has("thruster", e)
      [] i = 2 -> Has("turret", p) \/ Has("turret", e)
      [] i = 3 -> Has("armor", p) \/ Contains(<<"armr", "_">>, e)
      [] i = 4 -> Has("power", p)
      [] i = 5 -> Has("cooler", p)
      [] i = 6 -> Has("shield", p)
      [] i = 7 -> Has("quantum", p)
      [] i = 8 -> Has("weapon", p) \/ Has("gun", p)
      [] i = 9 -> Has("missile", p) \/ Has("pylon", p)
      [] OTHER -> TRUE

FirstRule(p, e) ==
    CHOOSE i \in 1..10 : RuleMatches(i, p, e) /\ \A j \in 1..(i - 1) : ~RuleMatches(j, p, e)

\* C6 (ordered classification): the hardpoint lands in the list of the first
\* rule that matches in the order thruster, turret, armor, powerplant, cooler,
\* shield, quantum drive, weapon, missile, else other, and in no other list;
\* so a thruster keyword wins over every other keyword and a turret keyword
\* over power, weapon and gun.
C6_FirstMatchWins ==
    pc = "done" =>
        LET item == [k |-> args.port, v |-> args.entity]
            first == CategoryNames[FirstRule(args.port, args.entity)]
        IN  /\ \A c \in CategorySet : result[c] = IF c = first THEN <<item>> ELSE <<>>
            /\ (Has("thruster", args.port) \/ Has("thruster", args.entity))
                  => result["thrusters"] = <<item>>
            /\ ((Has("turret", args.port) \/ Has("turret", args.entity))
                  /\ ~(Has("thruster", args.port) \/ Has("thruster", args.entity)))
                  => result["turrets"] = <<item>>

\* A port with both the thruster and the turret keyword was classified
\* thruster.
C6_Witness ==
    /\ pc = "done"
    /\ Has("thruster", args.port) /\ Has("turret", args.port)
    /\ result["thrusters"] # <<>>

(***************************************************************************)
(* One ship file through process_all_ships (specification SpecShip)        *)
(***************************************************************************)

\* Most (itemPortName, entityClassName) pairs in a ship file.
MaxEntries == 2

N(a, b) == <<a, "_", b>>

\* The part directories: a fleet's parts, and the catalog of the end-to-end
\* example alone.
FleetTree ==
    [armor |-> << PartFile(N("armr", "none"), TRUE, "num", 0, NoResist),
                  PartFile(<<"armr", "_", "aegs", "_", "gladius">>, TRUE, "num", 7000,
                           [NoResist EXCEPT !["resist_physical"] = 6,
                                            !["resist_energy"] = 0]),
                  PartFile(N("ARMR", "light"), TRUE, "num", 9000,
                           [NoResist EXCEPT !["resist_physical"] = 8]),
                  PartFile(N("armr", "nohp"), TRUE, "none", 0, NoResist) >>,
     thrusters |-> << PartFile(<<"thr", "_", "main", "_", "s3">>, TRUE, "num", 4500, NoResist),
                      PartFile(N("thr", "retro"), TRUE, "num", 1005, NoResist),
                      PartFile(N("thr", "zero"), TRUE, "num", 0, NoResist),
                      PartFile(<<"thr", "_", "vtol", "_", "scitem">>, TRUE, "num", 300,
                               NoResist),
                      PartFile(N("thr", "joint"), TRUE, "num", 60, NoResist) >>,
     turret |-> << PartFile(N("turret", "a"), TRUE, "num", 2000, NoResist),
                   PartFile(N("turret", "lost"), FALSE, "num", 100, NoResist) >>,
     powerplant |-> << PartFile(<<"powr", "_", "a", "_", "scitem">>, TRUE, "num", 3000,
                                NoResist) >>,
     cooler |-> << PartFile(N("cool", "a"), TRUE, "num", 1500, NoResist) >>,
     shieldgenerator |-> << PartFile(N("shld", "a"), TRUE, "num", -50, NoResist) >>,
     quantumdrive |-> << PartFile(N("qdrv", "a"), TRUE, "num", 250, NoResist) >>]

ExampleTree ==
    [armor |-> << PartFile(N("armr", "light"), TRUE, "num", 9000,
                           [NoResist EXCEPT !["resist_physical"] = 8]) >>,
     thrusters |-> << PartFile(<<"thr", "_", "main", "_", "s3">>, TRUE, "num", 4500,
                               NoResist) >>,
     turret |-> <<>>, powerplant |-> <<>>, cooler |-> <<>>, shieldgenerator |-> <<>>,
     quantumdrive |-> <<>>]

\* main(): the four lookups loaded from the part directories.
LoadPartData(tree) ==
    PartData(load_armor_data(tree.armor), load_thruster_data(tree.thrusters),
             load_turret_data(tree.turret), load_component_data(tree))

FleetData == LoadPartData(FleetTree)

ExampleData == LoadPartData(ExampleTree)

ThrMainS3 == <<"thr", "_", "main", "_", "s3">>

PortMainLeft  == <<"hardpoint", "_", "thruster", "_", "main", "_", "left">>
PortMainRight == <<"hardpoint", "_", "thruster", "_", "main", "_", "right">>

EntryPool ==
    { RawEntry(PortMainLeft, ThrMainS3),
      RawEntry(PortMainRight, <<"THR", "_", "main", "_", "s3">>),
      RawEntry(PortMainLeft, N("thr", "zero")),
      RawEntry(<<"hardpoint", "_", "thruster", "_", "retro">>,
               <<"thr", "_", "retro", "_", "x">>),
      RawEntry(<<"hardpoint", "_", "thruster", "_", "retro", "_", "main">>, N("thr", "vtol")),
      RawEntry(<<"hardpoint", "_", "thruster", "_", "turret">>, N("turret", "a")),
      RawEntry(N("hardpoint", "thruster"), N("thr", "vtol")),
      RawEntry(<<"hardpoint", "_", "thruster", "_", "aux">>, N("thr", "joint")),
      RawEntry(N("hardpoint", "armor"), N("armr", "none")),
      RawEntry(N("hardpoint", "body"), N("armr", "light")),
      RawEntry(N("hardpoint", "Turret"), N("turret", "a")),
      RawEntry(<<"hardpoint", "_", "power", "_", "plant">>,
               <<"powr", "_", "a", "_", "scitem">>),
      RawEntry(N("hardpoint", "cooler"), <<>>),
      RawEntry(<<"hardpoint", "_", "weapon", "_", "gun">>, <<"laser">>) }

\* The end-to-end example: two thr_main_s3 entries and an armr_light entry.
ExampleEntries(armor_port) ==
    << RawEntry(PortMainLeft, ThrMainS3), RawEntry(PortMainRight, ThrMainS3),
       RawEntry(armor_port, N("armr", "light")) >>

ExampleArmorPorts == { N("hardpoint", "armor"), N("hardpoint", "body") }

EntryLists ==
    UNION {[1..k -> EntryPool] : k \in 0..MaxEntries}
    \cup {ExampleEntries(p) : p \in ExampleArmorPorts}

ShipStems == { N("aegs", "gladius"), N("anvl", "arrow") }

SampleShipFiles ==
    { ShipFile(stem, TRUE, TRUE, "100", entries) : stem \in ShipStems, entries \in EntryLists }
    \cup { ShipFile(N("aegs", "gladius"), FALSE, TRUE, "100", <<>>),
           ShipFile(<<"aegs", "_", "gladius", "_", "test">>, TRUE, TRUE, "100", <<>>),
           ShipFile(N("aegs", "gladius"), TRUE, FALSE, "100", <<>>),
           ShipFile(N("aegs", "gladius"), TRUE, TRUE, "0", <<>>),
           ShipFile(N("aegs", "gladius"), TRUE, TRUE, "", <<>>) }

InitShip ==
    /\ NoRuns
    /\ args \in [file : SampleShipFiles, data : {FleetData, ExampleData}]
    /\ result = "none"
    /\ pc = "ready"

\* The loop body of process_all_ships on one ship file.
ProcessOneShip ==
    /\ pc = "ready"
    /\ result' = ProcessShip(args.file, args.data)
    /\ pc' = "done"
    /\ UNCHANGED <<args, mergeVars>>

NextShip == ProcessOneShip

SpecShip == InitShip /\ [][NextShip]_vars

Processed == pc = "done" /\ result.kind = "ship"

\* The mapping item an entry of the ship file stands for.
ItemOf(e) == [k |-> Lower(e.port), v |-> Lower(e.cls)]

\* In how many places of the category lists the item stands.
Occurrences(categorized, item) ==
    SumSeq([i \in DOMAIN CategoryNames |->
              Cardinality({j \in DOMAIN categorized[CategoryNames[i]] :
                             categorized[CategoryNames[i]][j] = item})])

\* How many times the health of the entry on a port was added to a total.
TimesAdded(added, port) == Cardinality({j \in DOMAIN added : added[j].port = port})

IsExample ==
    /\ args.file.entries \in {ExampleEntries(p) : p \in ExampleArmorPorts}
    /\ DictGet(args.data.thruster_data, ThrMainS3, NoVal) = 450
    /\ DictHas(args.data.armor_data, N("armr", "light"))
    /\ DictGet(args.data.armor_data, N("armr", "light"), NoArmor).health = 900
    /\ DictGet(args.data.armor_data, N("armr", "light"), NoArmor).resist["resist_physical"] = 8

\* C8 (end-to-end example): thr_main_s3 (450) on hardpoint_thruster_main_left
\* and _right and armr_light (900, physical 0.8) give thruster main 900, armor
\* health 900 and armor physical resistance 0.8.
C8_EndToEndExample ==
    (Processed /\ IsExample) =>
        /\ result.totals["thruster_main_hp"] = 900
        /\ result.armor_hp = 900
        /\ result.armor_resist_physical = 8

\* The example ship was processed with the example catalog.
C8_Witness ==
    /\ Processed
    /\ IsExample
    /\ args.data = ExampleData
    /\ result.totals["thruster_count"] = 2

\* C10 as claimed: a key found by pattern is used only when the exact lookup
\* of the id failed, and is then the first key in build order that contains
\* the id or is contained in it.
C10_ApproxOnlyAfterExactFails ==
    Processed =>
        /\ \A i \in DOMAIN result.lookups :
              result.lookups[i].via = "approx" =>
                 LET e == result.lookups[i].entity
                     d == args.data.thruster_data
                     Sub(key) == Contains(e, key) \/ Contains(key, e)
                 IN  /\ ~DictHas(d, e)
                     /\ \E j \in DOMAIN d :
                           /\ d[j].k = result.lookups[i].key
                           /\ Sub(d[j].k)
                           /\ \A h \in 1..(j - 1) : ~Sub(d[h].k)
        /\ result.armor_lookup.approx => ~result.armor_lookup.exact

\* The thruster half of C10 alone.
C10_ThrusterApproxOnlyAfterExactFails ==
    Processed =>
        \A i \in DOMAIN result.lookups :
            result.lookups[i].via = "approx"
               => ~DictHas(args.data.thruster_data, result.lookups[i].entity)

(***************************************************************************)
(* One ship XML through extract_component_hp_from_ship (SpecExtract)       *)
(***************************************************************************)

\* Most loadout entries in a ship XML.
MaxLoadoutEntries == 1

LoadoutPorts == { N("hardpoint", "Turret"), <<"hardpoint", "_", "thruster", "_", "main">>,
                  N("hardpoint", "cooler"), N("hardpoint", "seat") }

LoadoutClasses == { <<>>, N("Turret", "a"), N("thr", "unknown") }

LoadoutRefs == { "", ZeroGuid, "G1", "g4", "g9" }

LoadoutPool == { LoadoutEntry(p, c, r) : p \in LoadoutPorts, c \in LoadoutClasses,
                                         r \in LoadoutRefs }

LoadoutXmls ==
    { ShipXml("ok", es) : es \in UNION {[1..k -> LoadoutPool] : k \in 0..MaxLoadoutEntries} }
    \cup { ShipXml("bad", <<>>) }

\* entity_class of every loadout entry after the GUID step.
EntityClasses(entries, guid_lookup) ==
    [i \in DOMAIN entries |-> ResolveEntityClass(entries[i], guid_lookup)]

InitExtract ==
    /\ NoRuns
    /\ args \in LoadoutXmls
    /\ result = "none"
    /\ pc = "ready"

\* One call of extract_component_hp_from_ship with the sample catalog.
ExtractOneShip ==
    /\ pc = "ready"
    /\ result' = [totals |-> ExtractShip(args, Catalog.component_hp, Catalog.guid_lookup),
                  entity_class |-> EntityClasses(args.entries, Catalog.guid_lookup)]
    /\ pc' = "done"
    /\ UNCHANGED <<args, mergeVars>>

NextExtract == ExtractOneShip

SpecExtract == InitExtract /\ [][NextExtract]_vars

\* The entry's direct id is not a key of the catalog, and its indirect id is
\* present, not the sentinel, and mapped.
IndirectIdApplies(e) ==
    /\ ~DictHas(Catalog.component_hp, Lower(e.cls))
    /\ e.ref # ""
    /\ e.ref # ZeroGuid
    /\ DictHas(Catalog.guid_lookup, LowerTok(e.ref))

\* C9 as claimed: an entry whose direct id is not in the catalog (empty or an
\* unknown name) and whose indirect id is present, not the sentinel, and
\* mapped, resolves to the mapped component key.
C9_IndirectIdFallback ==
    (pc = "done" /\ args.kind = "ok") =>
        \A i \in DOMAIN args.entries :
            IndirectIdApplies(args.entries[i]) =>
                Lower(result.entity_class[i])
                   = DictGet(Catalog.guid_lookup, LowerTok(args.entries[i].ref), <<>>)

\* The part of C9 the code has: the same with an empty direct id.
C9_EmptyIdFallsBack ==
    (pc = "done" /\ args.kind = "ok") =>
        \A i \in DOMAIN args.entries :
            (IndirectIdApplies(args.entries[i]) /\ args.entries[i].cls = <<>>) =>
                Lower(result.entity_class[i])
                   = DictGet(Catalog.guid_lookup, LowerTok(args.entries[i].ref), <<>>)

(***************************************************************************)
(* Unresolved references of extract_component_hp_from_ship                 *)
(***************************************************************************)

\* The entry's name is a key of the catalog.
DirectResolves(e) == DictHas(Catalog.component_hp, Lower(e.cls))

\* The entry's indirect id is present, not the sentinel, and mapped to a key
\* of the catalog.
IndirectResolves(e) ==
    /\ e.ref # ""
    /\ e.ref # ZeroGuid
    /\ DictHas(Catalog.guid_lookup, LowerTok(e.ref))
    /\ DictHas(Catalog.component_hp, DictGet(Catalog.guid_lookup, LowerTok(e.ref), <<>>))

Unresolved(e) == ~DirectResolves(e) /\ ~IndirectResolves(e)

NotFoundPorts == {result.totals.component_not_found[j].port :
                    j \in DOMAIN result.totals.component_not_found}

\* C11 as claimed: every entry that resolves neither directly nor through its
\* indirect id has its port in the list of unresolved references, a ship whose
\* entries are all unresolved has every total zero, and the list holds the
\* port of no entry that resolved.
C11_UnresolvedRecorded ==
    (pc = "done" /\ args.kind = "ok") =>
        /\ \A i \in DOMAIN args.entries :
              Unresolved(args.entries[i]) => args.entries[i].port \in NotFoundPorts
        /\ (\A i \in DOMAIN args.entries : Unresolved(args.entries[i]))
              => \A k \in HpKeySet : result.totals.hp_totals[k] = 0
        /\ \A p \in NotFoundPorts :
              \E i \in DOMAIN args.entries :
                  args.entries[i].port = p /\ Unresolved(args.entries[i])

\* What the code has of C11: an entry with a name (its own, or the one its
\* indirect id gave when it had none) that is not a key of the catalog, on a
\* port of a component type, is in the list; nothing in the list added health;
\* a ship whose entries are all unresolved has every total zero.
C11_NamedOnTypedPortRecorded ==
    (pc = "done" /\ args.kind = "ok") =>
        /\ \A i \in DOMAIN args.entries :
              ( /\ result.entity_class[i] # <<>>
                /\ ComponentType(args.entries[i].port) # ""
                /\ ~DictHas(Catalog.component_hp, Lower(result.entity_class[i])) )
              <=> \E j \in DOMAIN result.totals.component_not_found :
                      result.totals.component_not_found[j]
                         = [cls |-> result.entity_class[i], port |-> args.entries[i].port]
        /\ (\A i \in DOMAIN args.entries : Unresolved(args.entries[i]))
              => \A k \in HpKeySet : result.totals.hp_totals[k] = 0

(***************************************************************************)
(* build_component_hp_lookup file by file, then one ship (SpecBuild)       *)
(***************************************************************************)

\* Most component XML files in the tree.
MaxFiles == 2

\* Component XML files: two whose names differ in case only, one without a
\* Health attribute, one with the all-zero __ref, one without __ref, one that
\* does not parse, one whose name is taken but that has no Health, one with a
\* negative Health and one whose Health is not a number.
ComponentFilePool ==
    { ComponentFile(N("turret", "a"), "G1",     "num",  25, TRUE),
      ComponentFile(N("Turret", "a"), "g2",     "num",  40, TRUE),
      ComponentFile(N("thr", "nohp"), "g4",     "none",  0, TRUE),
      ComponentFile(N("thr", "retro"), ZeroGuid, "num", 10, TRUE),
      ComponentFile(N("cool", "a"),   "",       "num",  10, TRUE),
      ComponentFile(N("turret", "bad"), "g5",   "num",  90, FALSE),
      ComponentFile(N("turret", "a"), "g1",     "none",  0, TRUE),
      ComponentFile(N("thr", "neg"),  "g6",     "num", -505, TRUE),
      ComponentFile(N("cool", "j"),   "g7",     "junk",  0, TRUE) }

FileLists == UNION {[1..k -> ComponentFilePool] : k \in 0..MaxFiles}

\* Ship XMLs of one loadout entry each.
BuildShipXmls ==
    { ShipXml("ok", << LoadoutEntry(p, c, r) >>) :
        p \in { N("hardpoint", "Turret"), <<"hardpoint", "_", "thruster", "_", "main">> },
        c \in { <<>>, N("thr", "neg"), N("turret", "a") },
        r \in { "", ZeroGuid, "G1", "g4" } }

NoExtract == [hp_totals |-> ZeroTotals, component_not_found |-> <<>>]

InitBuild ==
    /\ NoRuns
    /\ args \in [files : FileLists, xml : BuildShipXmls]
    /\ result = [catalog |-> [component_hp |-> <<>>, guid_lookup |-> <<>>], n |-> 0,
                 extract |-> NoExtract, entity_class |-> <<>>]
    /\ pc = "building"

\* One pass of the loop over the files of the component tree.
BuildFile ==
    /\ pc = "building"
    /\ result.n < Len(args.files)
    /\ result' = [result EXCEPT !.catalog = BuildOneFile(@, args.files[result.n + 1]),
                                !.n = @ + 1]
    /\ UNCHANGED <<pc, args, mergeVars>>

\* The lookups are returned and one ship's loadout is read with them.
ExtractBuilt ==
    /\ pc = "building"
    /\ result.n = Len(args.files)
    /\ result' = [result EXCEPT
                    !.extract = ExtractShip(args.xml, result.catalog.component_hp,
                                            result.catalog.guid_lookup),
                    !.entity_class = EntityClasses(args.xml.entries,
                                                   result.catalog.guid_lookup)]
    /\ pc' = "done"
    /\ UNCHANGED <<args, mergeVars>>

NextBuild == BuildFile \/ ExtractBuilt

SpecBuild == InitBuild /\ [][NextBuild]_vars

\* The files read so far that gave a record: parsed, with a numeric Health.
GaveRecord(i) ==
    /\ i <= result.n
    /\ args.files[i].ok
    /\ args.files[i].health.tag = "num"

Built == pc \in {"building", "done"} /\ result.n = Len(args.files)

\* C12 as claimed: the catalog holds, under every key, the health of the first
\* file in traversal order that gave a record of that key.
C12_FirstFileWins ==
    Built =>
        \A i \in DOMAIN args.files :
            ( /\ GaveRecord(i)
              /\ \A h \in 1..(i - 1) :
                    ~(GaveRecord(h) /\ Lower(args.files[h].name) = Lower(args.files[i].name)) )
            => DictGet(result.catalog.component_hp, Lower(args.files[i].name), NoVal)
                  = IntOfFloat(args.files[i].health.t)

\* What the code has in place of C12: the last file of a key wins.
C12_LastFileWins ==
    Built =>
        \A i \in DOMAIN args.files :
            ( /\ GaveRecord(i)
              /\ \A h \in (i + 1)..Len(args.files) :
                    ~(GaveRecord(h) /\ Lower(args.files[h].name) = Lower(args.files[i].name)) )
            => DictGet(result.catalog.component_hp, Lower(args.files[i].name), NoVal)
                  = IntOfFloat(args.files[i].health.t)

(***************************************************************************)
(* load_armor_data file by file (SpecArmor)                                *)
(***************************************************************************)

\* Most XML files in the armor directory.
MaxArmorFiles == 2

\* Armor files: full and partial resistances, multipliers of zero, no Health,
\* a signed Health, Health 0, an unreadable file, a name differing in case
\* only and a name with the '_scitem' suffix.
ArmorFilePool ==
    { PartFile(N("armr", "light"), TRUE, "num", 9000,
               [NoResist EXCEPT !["resist_physical"] = 8]),
      PartFile(N("armr", "zero"), TRUE, "num", 5005,
               [r \in ResistKinds |-> IF r \in {"resist_physical", "resist_stun"}
                                      THEN 0 ELSE 12]),
      PartFile(N("armr", "nohp"), TRUE, "none", 0,
               [NoResist EXCEPT !["resist_energy"] = 5]),
      PartFile(N("armr", "neg"), TRUE, "num", -500, NoResist),
      PartFile(N("armr", "none"), TRUE, "num", 0,
               [NoResist EXCEPT !["resist_distortion"] = 0]),
      PartFile(N("armr", "lost"), FALSE, "num", 100, NoResist),
      PartFile(N("ARMR", "light"), TRUE, "num", 7000,
               [NoResist EXCEPT !["resist_physical"] = 6, !["resist_thermal"] = 0]),
      PartFile(<<"armr", "_", "light", "_", "scitem">>, TRUE, "num", 100, NoResist) }

ArmorFileLists == UNION {[1..k -> ArmorFilePool] : k \in 0..MaxArmorFiles}

InitArmor ==
    /\ NoRuns
    /\ args \in [parts : ArmorFileLists]
    /\ result = [armor_data |-> <<>>, n |-> 0]
    /\ pc = "loading"

\* One pass of `for xml_file in armor_dir.glob("*.xml")`.
LoadArmor ==
    /\ pc = "loading"
    /\ result.n < Len(args.parts)
    /\ result' = [armor_data |-> LoadArmorFile(result.armor_data, args.parts[result.n + 1]),
                  n |-> result.n + 1]
    /\ UNCHANGED <<pc, args, mergeVars>>

\* return armor_data
LoadArmorDone ==
    /\ pc = "loading"
    /\ result.n = Len(args.parts)
    /\ pc' = "done"
    /\ UNCHANGED <<result, args, mergeVars>>

NextArmor == LoadArmor \/ LoadArmorDone

SpecArmor == InitArmor /\ [][NextArmor]_vars

C14_SentinelExcluded ==
    /\ ~DictHas(result.catalog.guid_lookup, ZeroGuid)
    /\ ~DictHas(result.catalog.guid_lookup, "")
    /\ pc = "done" =>
          \A i \in DOMAIN args.xml.entries :
              args.xml.entries[i].ref = ZeroGuid
                 => result.entity_class[i] = args.xml.entries[i].cls

\* A file with the all-zero __ref and one without __ref were read, and a
\* nameless entry with the all-zero reference was looked up.
C14_Witness ==
    /\ pc = "done"
    /\ \E i \in DOMAIN args.files : args.files[i].ok /\ args.files[i].guid = ZeroGuid
    /\ \E i \in DOMAIN args.files : args.files[i].ok /\ args.files[i].guid = ""
    /\ DictHas(result.catalog.component_hp, N("thr", "retro"))
    /\ args.xml.entries[1].ref = ZeroGuid
    /\ args.xml.entries[1].cls = <<>>
    /\ result.entity_class[1] = <<>>

\* C15 as claimed: once the catalog is built, every name guid_lookup maps a
\* __ref to is a key of component_hp.
C15_IndirectMapsToKey ==
    Built =>
        \A j \in DOMAIN result.catalog.guid_lookup :
            DictHas(result.catalog.component_hp, result.catalog.guid_lookup[j].v)

\* What the code has of C15: every name in guid_lookup is the name of a file
\* that parsed.
C15_IndirectMapsToParsedFile ==
    \A j \in DOMAIN result.catalog.guid_lookup :
        \E i \in 1..result.n :
            /\ args.files[i].ok
            /\ Lower(args.files[i].name) = result.catalog.guid_lookup[j].v

\* C19 as claimed: every total of the ship is greater than or equal to zero.
C19_TotalsNonNegative ==
    pc = "done" => \A k \in HpKeySet : result.extract.hp_totals[k] >= 0

(***************************************************************************)
(* Aggregation in process_all_ships                                        *)
(***************************************************************************)

\* The armor entries of the ship whose entity is a key of armor_data.
ResolvedArmor ==
    {i \in DOMAIN result.categorized["armor"] :
        DictHas(args.data.armor_data, result.categorized["armor"][i].v)}

\* The ship's armor values are those of the catalog entry rec.
ArmorIs(rec) ==
    /\ result.armor_hp = rec.health
    /\ result.armor_resist_physical = rec.resist["resist_physical"]
    /\ result.armor_resist_energy = rec.resist["resist_energy"]
    /\ result.armor_resist_distortion = rec.resist["resist_distortion"]

\* C16 as claimed: when an armor entry of the ship resolves, the ship's armor
\* health and resistances are those of the first one that does, whatever its
\* health.
C16_FirstResolvedArmorKept ==
    (Processed /\ ResolvedArmor # {}) =>
        \E i \in ResolvedArmor :
            /\ \A j \in ResolvedArmor : i <= j
            /\ ArmorIs(DictGet(args.data.armor_data, result.categorized["armor"][i].v,
                               NoArmor))

\* What the code has of C16: the same when the first resolved armor has a
\* health above zero.
C16_FirstResolvedArmorWithHealthKept ==
    (Processed /\ ResolvedArmor # {}) =>
        \E i \in ResolvedArmor :
            LET rec == DictGet(args.data.armor_data, result.categorized["armor"][i].v,
                               NoArmor)
            IN  /\ \A j \in ResolvedArmor : i <= j
                /\ rec.health > 0 => ArmorIs(rec)

\* The health the thruster loop found for the i-th thruster entry.
ThrusterHp(i) ==
    IF result.lookups[i].via = "none" THEN 0
    ELSE DictGet(args.data.thruster_data, result.lookups[i].key, 0)

\* The keyword stands in the port name or in the entity name.
Keyword(kw, i) == Has(kw, result.lookups[i].port) \/ Has(kw, result.lookups[i].entity)

SubtotalNames == {"thruster_main_hp", "thruster_retro_hp", "thruster_vtol_hp",
                  "thruster_mav_hp"}

\* The subtotals the i-th thruster entry was added to.
AddedTo(i) == {result.added[j].total : j \in {j \in DOMAIN result.added :
                                               result.added[j].port = result.lookups[i].port}}

\* The sum of the health of the thrusters added to a subtotal.
SubtotalOf(t) ==
    SumSeq([i \in DOMAIN result.lookups |->
              IF ThrusterHp(i) > 0 /\ t \in AddedTo(i) THEN ThrusterHp(i) ELSE 0])

\* C17: every counted thruster is added to exactly one of the subtotals main,
\* retro, vtol and mav, one whose keyword stands in its port or entity name,
\* and to mav when none of main, retro, vtol does; the subtotals are the sums
\* of what was added to them, and thruster_total_hp is the sum of the four.
C17_ThrusterSubtotals ==
    Processed =>
        /\ \A i \in DOMAIN result.lookups :
              ThrusterHp(i) > 0 =>
                 /\ Cardinality(AddedTo(i)) = 1
                 /\ TimesAdded(result.added, result.lookups[i].port) = 1
                 /\ AddedTo(i) \subseteq SubtotalNames
                 /\ "thruster_main_hp" \in AddedTo(i) => Keyword("main", i)
                 /\ "thruster_retro_hp" \in AddedTo(i) => Keyword("retro", i)
                 /\ "thruster_vtol_hp" \in AddedTo(i) => Keyword("vtol", i)
                 /\ (~Keyword("main", i) /\ ~Keyword("retro", i) /\ ~Keyword("vtol", i))
                       => AddedTo(i) = {"thruster_mav_hp"}
        /\ \A t \in SubtotalNames : result.totals[t] = SubtotalOf(t)
        /\ result.thruster_total_hp
              = result.totals["thruster_main_hp"] + result.totals["thruster_retro_hp"]
                + result.totals["thruster_vtol_hp"] + result.totals["thruster_mav_hp"]

\* A ship with a thruster that has none of the keywords, counted in the mav
\* subtotal, next to one in another subtotal.
C17_Witness ==
    /\ Processed
    /\ result.totals["thruster_mav_hp"] > 0
    /\ result.totals["thruster_count"] = 2
    /\ result.thruster_total_hp > result.totals["thruster_mav_hp"]

\* The key under which a component dict answers for an entity: the name, or
\* the name without '_scitem'; <<>> when neither is a key.
ResolvedKey(data, entity) ==
    IF DictHas(data, entity) THEN entity
    ELSE IF DictHas(data, RemoveAll(entity, <<"_", "scitem">>))
         THEN RemoveAll(entity, <<"_", "scitem">>)
         ELSE <<>>

\* The health of each entry of a category list, 0 for one that did not
\* resolve, and the entries that resolved.
HealthsOf(list, data) ==
    [i \in DOMAIN list |-> DictGet(data, ResolvedKey(data, list[i].v), 0)]

ResolvedIn(list, data) == {i \in DOMAIN list : ResolvedKey(data, list[i].v) # <<>>}

PositiveIn(list, data) == {i \in DOMAIN list : HealthsOf(list, data)[i] > 0}

\* C18 as claimed: for thrusters, turrets, power plants, coolers, shields and
\* quantum drives the total is the sum of the health of the entries that
\* resolved and the count is the number of entries that resolved, those of
\* health 0 included.
C18_SumAndCountOfResolved ==
    Processed =>
        LET c == result.categorized
            d == args.data.component_data
            t == result.totals
        IN  /\ t["thruster_count"]
                  = Cardinality({i \in DOMAIN result.lookups : result.lookups[i].via # "none"})
            /\ result.thruster_total_hp
                  = SumSeq([i \in DOMAIN result.lookups |-> ThrusterHp(i)])
            /\ t["turret_count"]
                  = Cardinality({i \in DOMAIN c["turrets"] :
                                   DictHas(args.data.turret_data, c["turrets"][i].v)})
            /\ t["turret_total_hp"]
                  = SumSeq([i \in DOMAIN c["turrets"] |->
                              DictGet(args.data.turret_data, c["turrets"][i].v, 0)])
            /\ t["powerplant_count"] = Cardinality(ResolvedIn(c["powerplant"], d.powerplant))
            /\ t["powerplant_total_hp"] = SumSeq(HealthsOf(c["powerplant"], d.powerplant))
            /\ t["cooler_count"] = Cardinality(ResolvedIn(c["cooler"], d.cooler))
            /\ t["cooler_total_hp"] = SumSeq(HealthsOf(c["cooler"], d.cooler))
            /\ t["shield_gen_count"] = Cardinality(ResolvedIn(c["shield"], d.shieldgenerator))
            /\ t["shield_gen_total_hp"] = SumSeq(HealthsOf(c["shield"], d.shieldgenerator))
            /\ t["qd_count"] = Cardinality(ResolvedIn(c["quantumdrive"], d.quantumdrive))
            /\ t["qd_total_hp"] = SumSeq(HealthsOf(c["quantumdrive"], d.quantumdrive))

\* What the code has of C18: the totals are those sums; turrets are counted
\* when they resolve, thrusters and the four component kinds only when their
\* health is above zero.
C18_SumAndCountOfPositive ==
    Processed =>
        LET c == result.categorized
            d == args.data.component_data
            t == result.totals
        IN  /\ t["thruster_count"]
                  = Cardinality({i \in DOMAIN result.lookups : ThrusterHp(i) > 0})
            /\ result.thruster_total_hp
                  = SumSeq([i \in DOMAIN result.lookups |-> ThrusterHp(i)])
            /\ t["turret_count"]
                  = Cardinality({i \in DOMAIN c["turrets"] :
                                   DictHas(args.data.turret_data, c["turrets"][i].v)})
            /\ t["turret_total_hp"]
                  = SumSeq([i \in DOMAIN c["turrets"] |->
                              DictGet(args.data.turret_data, c["turrets"][i].v, 0)])
            /\ t["powerplant_count"] = Cardinality(PositiveIn(c["powerplant"], d.powerplant))
            /\ t["powerplant_total_hp"] = SumSeq(HealthsOf(c["powerplant"], d.powerplant))
            /\ t["cooler_count"] = Cardinality(PositiveIn(c["cooler"], d.cooler))
            /\ t["cooler_total_hp"] = SumSeq(HealthsOf(c["cooler"], d.cooler))
            /\ t["shield_gen_count"] = Cardinality(PositiveIn(c["shield"], d.shieldgenerator))
            /\ t["shield_gen_total_hp"] = SumSeq(HealthsOf(c["shield"], d.shieldgenerator))
            /\ t["qd_count"] = Cardinality(PositiveIn(c["quantumdrive"], d.quantumdrive))
            /\ t["qd_total_hp"] = SumSeq(HealthsOf(c["quantumdrive"], d.quantumdrive))

(***************************************************************************)
(* extract_ship_loadouts.py: parse_loadout_entry (SpecWalk)                *)
(***************************************************************************)

\* Most elements in a generated subtree of a loadout entry.
MaxNodes == 3

\* str.upper() on the tokens of the class names used here.
UpperTok(t) ==
    CASE t = "klwe"   -> "KLWE"
      [] t = "laser"  -> "LASER"
      [] t = "Mount"  -> "MOUNT"
      [] t = "gimbal" -> "GIMBAL"
      [] t = "turret" -> "TURRET"
      [] t = "missile" -> "MISSILE"
      [] t = "mrck"   -> "MRCK"
      [] t = "misl"   -> "MISL"
      [] OTHER        -> t

Upper(s) == [i \in DOMAIN s |-> UpperTok(s[i])]

\* name_upper.startswith(prefix + '_') for one of the manufacturer prefixes.
WeaponPrefixes == {"BEHR", "KLWE", "AMRS", "GATS", "APAR", "KRIG", "VNCL", "TALN", "MISL",
                   "AEGS", "ANVL", "HURSTON", "JOKER", "MAXOX", "KBAR", "SPCD"}

WeaponKeywords == {"LASER", "CANNON", "REPEATER", "GATLING", "BALLISTIC", "MASS", "DRIVER",
                   "DISTORTION", "TORPEDO", "MISSILE"}

is_weapon_class(name) ==
    /\ name # <<>>
    /\ \/ Len(name) >= 2 /\ Upper(name)[1] \in WeaponPrefixes /\ name[2] = "_"
       \/ \E i \in DOMAIN name : Upper(name)[i] \in WeaponKeywords

EntryTag == "SItemPortLoadoutEntryParams"

ElementTags == {EntryTag, "loadout", "SItemPortLoadoutManualParams", "entries"}

\* One element of the parsed XML: its parent's index (0 for the entry the
\* tree hangs from), its tag and, on an entry, itemPortName and
\* entityClassName.  A tree is a sequence of elements, parents first.
Element(parent, tag, port, cls) == [parent |-> parent, tag |-> tag, port |-> port, cls |-> cls]

\* The children of an element in document order, then all its descendants
\* in document order: Element.findall('.//tag') before the tag filter.
Children(t, i) == {j \in DOMAIN t : t[j].parent = i}

RECURSIVE Descendants(_, _, _)
Descendants(t, i, from) ==
    LET later == {j \in Children(t, i) : j >= from} IN
    IF later = {} THEN <<>>
    ELSE LET c == CHOOSE j \in later : \A k \in later : j <= k
         IN  <<c>> \o Descendants(t, c, 1) \o Descendants(t, i, c + 1)

RECURSIVE Filter(_, _, _)
Filter(t, nodes, tag) ==
    IF nodes = <<>> THEN <<>>
    ELSE (IF t[Head(nodes)].tag = tag THEN <<Head(nodes)>> ELSE <<>>)
         \o Filter(t, Tail(nodes), tag)

\* node.findall('.//tag')
FindAll(t, i, tag) == Filter(t, Descendants(t, i, 1), tag)

\* `for x in nodes: for y in x.findall('.//tag')`: the y of every pass, in order.
RECURSIVE FindAllIn(_, _, _)
FindAllIn(t, nodes, tag) ==
    IF nodes = <<>> THEN <<>>
    ELSE FindAll(t, Head(nodes), tag) \o FindAllIn(t, Tail(nodes), tag)

\* The sub-entries the four nested loops of lines 115-118 reach, in order.
NestedLoadoutEntries(t, entry) ==
    FindAllIn(t, FindAllIn(t, FindAllIn(t, FindAll(t, entry, "loadout"),
                                        "SItemPortLoadoutManualParams"),
                           "entries"),
              EntryTag)

\* The sub-entries the loop of lines 122-124 recurses into: an element found
\* below the entry is never the entry itself.
DirectNestedEntries(t, entry) == FindAll(t, entry, EntryTag)

\* The entries whose (port, class) parse_loadout_entry appends to results, in
\* the order of the appends.
RECURSIVE ParsedEntries(_, _)
RECURSIVE ParsedEntriesOf(_, _)
ParsedEntries(t, entry) ==
    (IF is_weapon_class(t[entry].cls) THEN <<entry>> ELSE <<>>)
    \o ParsedEntriesOf(t, NestedLoadoutEntries(t, entry))
    \o ParsedEntriesOf(t, DirectNestedEntries(t, entry))

ParsedEntriesOf(t, entries) ==
    IF entries = <<>> THEN <<>>
    ELSE ParsedEntries(t, Head(entries)) \o ParsedEntriesOf(t, Tail(entries))

\* The list of (hardpoint_name, weapon_class_name) tuples returned.
parse_loadout_entry(t, entry) ==
    LET nodes == ParsedEntries(t, entry) IN
    [k \in DOMAIN nodes |-> <<t[nodes[k]].port, Lower(t[nodes[k]].cls)>>]

\* itemPortName of the entry written as the i-th element of a tree.
PortNames == << "hardpoint_turret_1", "hardpoint_gun_2", "hardpoint_gun_3",
                "hardpoint_gun_4", "hardpoint_gun_5", "hardpoint_gun_6",
                "hardpoint_gun_7", "hardpoint_gun_8", "hardpoint_gun_9",
                "hardpoint_gun_10" >>

\* entityClassName of an entry: a weapon and a mount.
EntryClasses == { <<"KLWE", "_", "laser">>, <<"Mount", "_", "gimbal">> }

Entry(parent, i, cls) == Element(parent, EntryTag, PortNames[i], cls)

Other(parent, tag) == Element(parent, tag, "", <<>>)

\* What the i-th element of a tree can be.
NodeChoices(i) ==
    { Entry(p, i, c) : p \in 1..(i - 1), c \in EntryClasses }
    \cup { Other(p, tag) : p \in 1..(i - 1), tag \in ElementTags \ {EntryTag} }

\* The trees of n elements below (and with) a loadout entry.
RECURSIVE TreesOf(_)
TreesOf(n) ==
    IF n = 1 THEN { << Entry(0, 1, c) >> : c \in EntryClasses }
    ELSE { Append(t, e) : t \in TreesOf(n - 1), e \in NodeChoices(n) }

\* A turret with a gun in its loadout, and one whose gun mount carries a
\* second loadout with a gun.
TurretTree ==
    << Entry(0, 1, <<"Mount", "_", "gimbal">>), Other(1, "loadout"),
       Other(2, "SItemPortLoadoutManualParams"), Other(3, "entries"),
       Entry(4, 5, <<"KLWE", "_", "laser">>) >>

NestedTurretTree ==
    TurretTree \o << Other(5, "loadout"), Other(6, "SItemPortLoadoutManualParams"),
                     Other(7, "entries"), Entry(8, 9, <<"KLWE", "_", "laser">>) >>

\* Ten entries nested directly in one another, a gun in the innermost.
DeepTree ==
    [i \in 1..10 |-> Entry(i - 1, i, IF i = 10 THEN <<"KLWE", "_", "laser">>
                                               ELSE <<"Mount", "_", "gimbal">>)]

SampleTrees ==
    UNION {TreesOf(n) : n \in 1..MaxNodes} \cup {TurretTree, NestedTurretTree, DeepTree}

EntriesOf(t) == {i \in DOMAIN t : t[i].tag = EntryTag}

InitWalk ==
    /\ NoRuns
    /\ \E t \in SampleTrees : \E e \in EntriesOf(t) : args = [tree |-> t, entry |-> e]
    /\ result = "none"
    /\ pc = "ready"

\* One call parse_loadout_entry(entry), as extract_ship_loadout makes it.
ParseLoadout ==
    /\ pc = "ready"
    /\ result' = [results |-> parse_loadout_entry(args.tree, args.entry),
                  entries |-> ParsedEntries(args.tree, args.entry)]
    /\ pc' = "done"
    /\ UNCHANGED <<args, mergeVars>>

NextWalk == ParseLoadout

SpecWalk == InitWalk /\ [][NextWalk]_vars

\* C20 as claimed: the walk returns, and no entry of the tree is appended to
\* the result a second time.
C20_NoEntryAddedTwice ==
    pc = "done" =>
        \A j, k \in DOMAIN result.entries :
            j # k => result.entries[j] # result.entries[k]

\* What the code has of C20: the walk returns with the weapon entries at and
\* below the entry it was called on, each at least once, and nothing else.
C20_WalkReturnsWeaponsBelow ==
    pc = "done" =>
        {result.entries[k] : k \in DOMAIN result.entries}
           = {i \in {args.entry} \cup
                    {Descendants(args.tree, args.entry, 1)[k] :
                       k \in DOMAIN Descendants(args.tree, args.entry, 1)} :
                 /\ args.tree[i].tag = EntryTag
                 /\ is_weapon_class(args.tree[i].cls)}

\* How often the walk appended the entry i to its result.
TimesParsed(i) == Cardinality({k \in DOMAIN result.entries : result.entries[k] = i})

\* C21 as claimed: every weapon entry of the tree stands at most once in the
\* list one walk returns, at whatever depth and along whatever path the walk
\* reaches it.
C21_WeaponListedAtMostOnce ==
    pc = "done" =>
        \A i \in EntriesOf(args.tree) :
            is_weapon_class(args.tree[i].cls) => TimesParsed(i) <= 1

\* The number of entries the entry i is nested in, up to and not counting
\* the entry the walk started from (0 for that entry itself).
RECURSIVE NestingDepth(_, _, _)
NestingDepth(t, i, entry) ==
    IF i = entry \/ i = 0 THEN 0
    ELSE (IF t[i].tag = EntryTag THEN 1 ELSE 0) + NestingDepth(t, t[i].parent, entry)

\* C22 as claimed: no entry nested deeper than 8 below the entry the walk
\* started from contributes to the list.
C22_NothingBelowDepthBound ==
    pc = "done" =>
        \A k \in DOMAIN result.entries :
            NestingDepth(args.tree, result.entries[k], args.entry) <= 8

\* What the code has of C22: the walk goes to the bottom of every branch; the
\* weapon entries below the start are all in the list, however deep.
C22_EveryDepthContributes ==
    pc = "done" =>
        \A i \in EntriesOf(args.tree) :
            ( /\ is_weapon_class(args.tree[i].cls)
              /\ \E k \in DOMAIN Descendants(args.tree, args.entry, 1) :
                    Descendants(args.tree, args.entry, 1)[k] = i )
            => TimesParsed(i) >= 1


\* ---------------------------------------------------------------------------
\* The main loops of the three updater scripts, one vehicle per step, with
\* records and vehicle source files that may be malformed.
\* ---------------------------------------------------------------------------

MaxVehicles == 2

\* What a ship JSON file may hold: a JSON object, text that is not JSON, or
\* JSON that is a non-empty array instead of an object.
RecordKinds == {"object", "invalid", "array"}

\* The vehicle's XML file: well-formed, not well-formed, or not there.
XmlKinds == {"ok", "malformed", "absent"}

Scripts == {"extract_component_hp", "extract_ship_loadouts", "fix_missiles"}

VehicleFiles == [json : RecordKinds, xml : XmlKinds]

VehicleLists == UNION {[1..n -> VehicleFiles] : n \in 1..MaxVehicles}

\* load_ship_json: JSONDecodeError is caught and None returned.
load_ship_json(json) == IF json = "invalid" THEN "None" ELSE json

\* One iteration of the loop of update_ship_json_files: the XML is looked for
\* and read first (extract_component_hp_from_ship catches every exception and
\* returns zero totals), then the record is read and merged inside try/except
\* Exception.
ComponentHpIteration(v) ==
    IF v.xml = "absent" THEN "skipped"
    ELSE IF v.xml = "malformed" THEN "skipped"
    ELSE IF v.json = "invalid" THEN "error_logged"
    ELSE IF v.json = "array" THEN "error_logged"
    ELSE "processed"

\* One iteration of the loop of extract_ship_loadouts.main: load_ship_json,
\* ship_data.get (which a list does not have), find_ship_xml,
\* extract_ship_loadout (ParseError gives {}).
LoadoutsIteration(v) ==
    IF load_ship_json(v.json) = "None" THEN "skipped"
    ELSE IF v.json = "array" THEN "raised"
    ELSE IF v.xml = "absent" THEN "skipped"
    ELSE IF v.xml = "malformed" THEN "skipped"
    ELSE "processed"

\* One iteration of the loop of fix_missiles.main: json.load outside any try,
\* ship_data.get, find_ship_xml, extract_missiles_from_xml (ParseError gives {}).
MissilesIteration(v) ==
    IF v.json = "invalid" THEN "raised"
    ELSE IF v.json = "array" THEN "raised"
    ELSE IF v.xml = "absent" THEN "skipped"
    ELSE IF v.xml = "malformed" THEN "skipped"
    ELSE "processed"

InitIsolate ==
    /\ NoRuns
    /\ \E s \in Scripts : \E vs \in VehicleLists : args = [script |-> s, vehicles |-> vs]
    /\ result = << >>
    /\ pc = "running"

\* An exception that leaves the loop ends the run with a traceback.
Iterate(outcome_of) ==
    /\ result' = Append(result, outcome_of)
    /\ pc' = IF outcome_of = "raised" THEN "aborted" ELSE "running"
    /\ UNCHANGED <<args, mergeVars>>

ComponentHpVehicle ==
    /\ pc = "running"
    /\ args.script = "extract_component_hp"
    /\ Len(result) < Len(args.vehicles)
    /\ Iterate(ComponentHpIteration(args.vehicles[Len(result) + 1]))

LoadoutsVehicle ==
    /\ pc = "running"
    /\ args.script = "extract_ship_loadouts"
    /\ Len(result) < Len(args.vehicles)
    /\ Iterate(LoadoutsIteration(args.vehicles[Len(result) + 1]))

MissilesVehicle ==
    /\ pc = "running"
    /\ args.script = "fix_missiles"
    /\ Len(result) < Len(args.vehicles)
    /\ Iterate(MissilesIteration(args.vehicles[Len(result) + 1]))

\* The loop is over: the summary is printed.
PrintSummary ==
    /\ pc = "running"
    /\ Len(result) = Len(args.vehicles)
    /\ pc' = "summary"
    /\ UNCHANGED <<args, result, mergeVars>>

NextIsolate == ComponentHpVehicle \/ LoadoutsVehicle \/ MissilesVehicle \/ PrintSummary

SpecIsolate == InitIsolate /\ [][NextIsolate]_vars

\* C23: in each of the three updater scripts a malformed vehicle source file
\* or persisted record does not abort the run: no run ends in a traceback,
\* every vehicle after the malformed one gets its iteration, and a run that
\* has gone through its vehicles has visited all of them.
C23_FailureIsolated ==
    /\ pc # "aborted"
    /\ pc = "summary" => Len(result) = Len(args.vehicles)

\* What the code has: extract_component_hp isolates every one of these
\* failures, and the other two scripts isolate a malformed XML file.
C23_ComponentHpIsolated ==
    /\ args.script = "extract_component_hp" => pc # "aborted"
    /\ (\A i \in DOMAIN args.vehicles : args.vehicles[i].json = "object") => pc # "aborted"


\* ---------------------------------------------------------------------------
\* Two runs of update_ship_json_files on one vehicle record at the same time.
\* The record's file is a sequence of chunks: open(json_path, 'w') truncates
\* it, and json.dump's text reaches it in one write or several, each at the
\* writer's own offset.
\* ---------------------------------------------------------------------------

\* Writes one json.dump takes to reach the file.
MaxChunks == 2

ConcurrentRuns == {1, 2}

\* The text of a record, cut into n chunks.
Serialize(data, n) == [k \in 1..n |-> [data |-> data, part |-> k]]

\* f.write at offset k - 1 of a file that holds `content`.
WriteAt(content, k, chunk) ==
    IF k <= Len(content) THEN [content EXCEPT ![k] = chunk]
    ELSE Append(content, chunk)

\* The file holds the whole text of one record.
IsComplete(content, n) == Len(content) = n /\ content = Serialize(content[1].data, n)

\* json.load(f): the record of a complete file, and no JSON otherwise.
LoadFile(content, n) ==
    IF IsComplete(content, n) THEN content[1].data
    ELSE ShipRecord("bad", JsonObject("absent", EmptyComponents),
                    JsonObject("absent", EmptyThrusters), 0)

\* Vehicles that reach the try block: an XML was found and its totals are
\* not all zero.
MergedShipXmls == {x \in SampleShipXmls : x.kind # "none" /\ SumTotals(SampleTotals[x]) # 0}

InitConcurrent ==
    /\ NoRuns
    /\ \E rec \in {r \in SampleRecords : r.kind = "ok"} :
       \E x \in MergedShipXmls : \E n \in 1..MaxChunks :
          /\ args = [record |-> rec, hp_totals |-> SampleTotals[x], chunks |-> n]
          /\ result = [file |-> Serialize(rec, n),
                       seen |-> [r \in ConcurrentRuns |-> "unread"],
                       data |-> [r \in ConcurrentRuns |-> rec],
                       offset |-> [r \in ConcurrentRuns |-> 0]]
    /\ pc = [r \in ConcurrentRuns |-> "read"]

\* with open(json_path, 'r') as f: ship_data = json.load(f), and the merge
\* up to `if changed`.
ReadAndMerge(r) ==
    LET st == Merge(LoadFile(result.file, args.chunks), args.hp_totals) IN
    /\ pc[r] = "read"
    /\ result' = [result EXCEPT
                    !.seen[r] = IF IsComplete(result.file, args.chunks) THEN "complete"
                                ELSE IF result.file = << >> THEN "empty"
                                ELSE "partial",
                    !.data[r] = st.data]
    /\ pc' = [pc EXCEPT ![r] = IF st.error THEN "error"
                               ELSE IF WriteNeeded(st) THEN "open"
                               ELSE "nochange"]
    /\ UNCHANGED <<args, mergeVars>>

\* open(json_path, 'w'): the file is truncated.
OpenForWrite(r) ==
    /\ pc[r] = "open"
    /\ result' = [result EXCEPT !.file = << >>, !.offset[r] = 0]
    /\ pc' = [pc EXCEPT ![r] = "dump"]
    /\ UNCHANGED <<args, mergeVars>>

\* json.dump(ship_data, f, indent=2): the next chunk reaches the file; after
\* the last one the file is closed.
DumpChunk(r) ==
    LET k == result.offset[r] + 1 IN
    /\ pc[r] = "dump"
    /\ result' = [result EXCEPT
                    !.file = WriteAt(@, k, Serialize(result.data[r], args.chunks)[k]),
                    !.offset[r] = k]
    /\ pc' = [pc EXCEPT ![r] = IF k = args.chunks THEN "updated" ELSE "dump"]
    /\ UNCHANGED <<args, mergeVars>>

NextConcurrent ==
    \/ \E r \in ConcurrentRuns : ReadAndMerge(r)
    \/ \E r \in ConcurrentRuns : OpenForWrite(r)
    \/ \E r \in ConcurrentRuns : DumpChunk(r)

SpecConcurrent == InitConcurrent /\ [][NextConcurrent]_vars

RunsOver == \A r \in ConcurrentRuns : pc[r] \in {"error", "nochange", "updated"}

\* C24: when two runs process the same vehicle record concurrently, each
\* run's read observes a complete record, never an empty or partially written
\* one, and the record persisted when both are over is the complete output
\* of one of the two runs.
C24_AtomicReadModifyWrite ==
    /\ \A r \in ConcurrentRuns : result.seen[r] \in {"unread", "complete"}
    /\ RunsOver =>
          /\ IsComplete(result.file, args.chunks)
          /\ \/ \E r \in ConcurrentRuns : pc[r] = "updated" /\ result.file[1].data = result.data[r]
             \/ (\A r \in ConcurrentRuns : pc[r] # "updated") /\ result.file[1].data = args.record

\* What the code has: the two runs merge the same totals, so the record left
\* when both are over is complete and is what a single run leaves.
C24_FinalRecordComplete ==
    RunsOver =>
       /\ IsComplete(result.file, args.chunks)
       /\ LET st == Merge(args.record, args.hp_totals) IN
          result.file[1].data = IF WriteNeeded(st) /\ ~st.error THEN st.data ELSE args.record


\* ---------------------------------------------------------------------------
\* process_all_ships over the sorted ship files, one file per step.  The
\* function's local variables live from one iteration to the next, and the
\* four lookups are the objects main() built.
\* ---------------------------------------------------------------------------

MaxFleet == 2

FleetEntries ==
    { RawEntry(PortMainLeft, ThrMainS3),
      RawEntry(<<"hardpoint", "_", "thruster", "_", "retro">>,
               <<"thr", "_", "retro", "_", "x">>),
      RawEntry(N("hardpoint", "body"), N("armr", "light")),
      RawEntry(N("hardpoint", "Turret"), N("turret", "a")),
      RawEntry(<<"hardpoint", "_", "power", "_", "plant">>,
               <<"powr", "_", "a", "_", "scitem">>) }

FleetFilePool ==
    { ShipFile(N("aegs", "gladius"), TRUE, TRUE, "100", <<e>>) : e \in FleetEntries }
    \cup { ShipFile(N("anvl", "arrow"), TRUE, TRUE, "100", << >>),
           ShipFile(N("aegs", "gladius"), TRUE, FALSE, "100", << >>) }

FleetLists == UNION {[1..n -> FleetFilePool] : n \in 1..MaxFleet}

\* The local variables an iteration leaves behind: a skipped file leaves
\* them as they were.
LocalsAfter(ship, locals) ==
    IF ship.kind = "skipped" THEN locals
    ELSE [totals |-> ship.totals, added |-> ship.added, lookups |-> ship.lookups]

InitFleet ==
    /\ NoRuns
    /\ \E fs \in FleetLists : \E d \in {FleetData, ExampleData} : args = [files |-> fs, data |-> d]
    /\ result = [ships |-> << >>, locals |-> NoLocals, data |-> args.data]
    /\ pc = "loop"

\* One iteration of the loop: the lookups are read and never assigned to.
ProcessNextShip ==
    LET f    == args.files[Len(result.ships) + 1]
        ship == ProcessShipAfter(f, result.data, result.locals)
    IN  /\ pc = "loop"
        /\ Len(result.ships) < Len(args.files)
        /\ result' = [result EXCEPT !.ships = Append(@, ship),
                                    !.locals = LocalsAfter(ship, @)]
        /\ pc' = "loop"
        /\ UNCHANGED <<args, mergeVars>>

\* return ships
ReturnShips ==
    /\ pc = "loop"
    /\ Len(result.ships) = Len(args.files)
    /\ pc' = "done"
    /\ UNCHANGED <<args, result, mergeVars>>

NextFleet == ProcessNextShip \/ ReturnShips

SpecFleet == InitFleet /\ [][NextFleet]_vars

\* C25: the aggregate computed for a vehicle depends only on the catalog and
\* that vehicle's own record: it is what processing that vehicle alone, first,
\* gives, whichever vehicles were processed before it; and processing
\* vehicles never modifies the catalog maps.
C25_NoHiddenState ==
    /\ \A i \in DOMAIN result.ships :
          result.ships[i] = ProcessShipAfter(args.files[i], args.data, NoLocals)
    /\ result.data = args.data

\* A vehicle with a counted part processed after another vehicle with a
\* counted part.
C25_Witness ==
    /\ Len(result.ships) = 2
    /\ \A i \in 1..2 : /\ result.ships[i].kind = "ship"
                       /\ result.ships[i].added # << >>
    /\ args.files[1] # args.files[2]


\* ---------------------------------------------------------------------------
\* extract_ship_loadouts.py: extract_ship_loadout on a ship document
\* ---------------------------------------------------------------------------

\* Nested entries of a carrier in the sample documents.
MaxNested == 2

is_turret_mount(name) ==
    /\ name # <<>>
    /\ \E i \in DOMAIN name : Lower(name)[i] \in {"turret", "mount"}

is_missile_rack(name) ==
    /\ name # <<>>
    /\ Len(name) >= 2 /\ Upper(name)[1] = "MRCK" /\ name[2] = "_"

\* itemPortName values of the sample documents and their str.lower().
LowerPort(port) ==
    CASE port = "Hardpoint_Missile_1" -> "hardpoint_missile_1"
      [] port = "Hardpoint_Torpedo_1" -> "hardpoint_torpedo_1"
      [] OTHER                        -> port

\* any(re.search(pat, port_name, re.I) for pat in WEAPON_HARDPOINT_PATTERNS)
\* on the lowered port names of the sample documents.
IsWeaponHardpoint(port_name) ==
    port_name \in {"hardpoint_turret_1", "hardpoint_missile_1", "hardpoint_torpedo_1",
                   "hardpoint_gun_2", "hardpoint_gun_3", "hardpoint_gun_4",
                   "hardpoint_gun_5", "hardpoint_gun_6", "hardpoint_gun_7",
                   "hardpoint_gun_8", "hardpoint_gun_9", "hardpoint_gun_10"}

\* `if weapon and weapon not in weapons: weapons.append(weapon)` over the
\* tuples parse_loadout_entry returned.
RECURSIVE NestedWeapons(_, _)
NestedWeapons(tuples, weapons) ==
    IF tuples = <<>> THEN weapons
    ELSE LET weapon == Head(tuples)[2] IN
         NestedWeapons(Tail(tuples),
                       IF weapon # <<>> /\ \A k \in DOMAIN weapons : weapons[k] # weapon
                       THEN Append(weapons, weapon) ELSE weapons)

\* Lines 152-170: the weapons of one entry on a weapon hardpoint.
WeaponsOf(t, entry) ==
    LET entity_class == t[entry].cls IN
    IF entity_class # <<>> /\ is_weapon_class(entity_class)
    THEN << Lower(entity_class) >>
    ELSE IF entity_class # <<>> /\ (is_turret_mount(entity_class) \/ is_missile_rack(entity_class))
    THEN NestedWeapons(parse_loadout_entry(t, entry), <<>>)
    ELSE NestedWeapons(parse_loadout_entry(t, entry), <<>>)

\* The loop over root.findall('.//SItemPortLoadoutEntryParams').
RECURSIVE LoadoutLoop(_, _, _)
LoadoutLoop(t, entries, loadouts) ==
    IF entries = <<>> THEN loadouts
    ELSE LET entry == Head(entries)
             port_name == LowerPort(t[entry].port)
             weapons == WeaponsOf(t, entry)
         IN  LoadoutLoop(t, Tail(entries),
                         IF IsWeaponHardpoint(port_name) /\ weapons # <<>>
                         THEN DictSet(loadouts, port_name, weapons)
                         ELSE loadouts)

\* The document's root is element 0 of a tree.
extract_ship_loadout(t) == LoadoutLoop(t, FindAll(t, 0, EntryTag), <<>>)

\* Entities mounted on a hardpoint: mounts and racks, two of which have a
\* name a weapon could have, and a gun.
MountedClasses ==
    { <<"Mount", "_", "gimbal">>, <<"AEGS", "_", "turret">>, <<"MRCK", "_", "s2">>,
      <<"MRCK", "_", "missile">>, <<"KLWE", "_", "laser">> }

CarrierPorts == {"hardpoint_turret_1", "Hardpoint_Missile_1"}

\* What a carrier holds: guns, missiles and mounts, on ports that are and
\* are not weapon hardpoints.
NestedClasses == { <<"KLWE", "_", "laser">>, <<"MISL", "_", "S02">>, <<"Mount", "_", "gimbal">> }

NestedPorts == {"hardpoint_gun_5", "missile_attach_1"}

NestedChoices == [port : NestedPorts, cls : NestedClasses]

\* An entry with a loadout block of nested entries.
CarrierTree(port, cls, subs) ==
    << Element(0, EntryTag, port, cls), Other(1, "loadout"),
       Other(2, "SItemPortLoadoutManualParams"), Other(3, "entries") >>
    \o [k \in DOMAIN subs |-> Element(4, EntryTag, subs[k].port, subs[k].cls)]

LoadoutDocuments ==
    { CarrierTree(port, cls, subs) :
        port \in CarrierPorts, cls \in MountedClasses,
        subs \in UNION {[1..n -> NestedChoices] : n \in 1..MaxNested} }

InitLoadout ==
    /\ NoRuns
    /\ \E t \in LoadoutDocuments : args = [tree |-> t]
    /\ result = "none"
    /\ pc = "ready"

ExtractLoadout ==
    /\ pc = "ready"
    /\ result' = [loadouts |-> extract_ship_loadout(args.tree)]
    /\ pc' = "done"
    /\ UNCHANGED <<args, mergeVars>>

NextLoadout == ExtractLoadout

SpecLoadout == InitLoadout /\ [][NextLoadout]_vars

\* The weapon entries nested in the entry at element 1.
NestedWeaponEntries(t) ==
    {i \in EntriesOf(t) : i # 1 /\ is_weapon_class(t[i].cls)}

IsCarrier(t) ==
    /\ IsWeaponHardpoint(LowerPort(t[1].port))
    /\ is_turret_mount(t[1].cls) \/ is_missile_rack(t[1].cls)
    /\ NestedWeaponEntries(t) # {}

Listed(t) == DictGet(result.loadouts, LowerPort(t[1].port), <<>>)

\* C26: for a weapon hardpoint whose mounted entity is a turret mount or a
\* missile rack with nested weapon entries, extract_ship_loadout lists for
\* that port the nested weapons and not the carrier itself.
C26_CarrierListsNestedWeapons ==
    (pc = "done" /\ IsCarrier(args.tree)) =>
       /\ \A i \in NestedWeaponEntries(args.tree) :
             \E k \in DOMAIN Listed(args.tree) : Listed(args.tree)[k] = Lower(args.tree[i].cls)
       /\ \A k \in DOMAIN Listed(args.tree) : Listed(args.tree)[k] # Lower(args.tree[1].cls)

\* What the code has: the nested weapons are listed for a carrier whose own
\* name does not pass is_weapon_class; a carrier whose name does is listed
\* itself, alone.
C26_CarrierWithWeaponNameListed ==
    (pc = "done" /\ IsCarrier(args.tree)) =>
       IF is_weapon_class(args.tree[1].cls)
       THEN Listed(args.tree) = << Lower(args.tree[1].cls) >>
       ELSE /\ \A i \in NestedWeaponEntries(args.tree) :
                  \E k \in DOMAIN Listed(args.tree) :
                     Listed(args.tree)[k] = Lower(args.tree[i].cls)
            /\ \A k \in DOMAIN Listed(args.tree) : Listed(args.tree)[k] # Lower(args.tree[1].cls)


\* ---------------------------------------------------------------------------
\* fix_missiles.py: extract_missiles_from_xml on a ship document
\* ---------------------------------------------------------------------------

\* The number a token of a name spells after its S (re: S(\d+), re.I),
\* NoVal when it spells none.
SizeDigits(tok) ==
    CASE tok = "S02" -> 2
      [] tok = "s03" -> 3
      [] tok = "S09" -> 9
      [] OTHER       -> NoVal

\* re.search(r'MISL_S(\d+)', sub_entity, re.I): the positions of a match.
SizeMatches(name) ==
    {i \in DOMAIN name : /\ i + 2 <= Len(name)
                         /\ Upper(name)[i] = "MISL" /\ name[i + 1] = "_"
                         /\ SizeDigits(name[i + 2]) # NoVal}

\* int(size_match.group(1)) if size_match else default
MissileSize(name, default) ==
    IF SizeMatches(name) = {} THEN default
    ELSE SizeDigits(name[(CHOOSE i \in SizeMatches(name) : \A j \in SizeMatches(name) : i <= j) + 2])

\* sub_entity.upper().startswith('MISL_')
IsMissile(name) == Len(name) >= 2 /\ Upper(name)[1] = "MISL" /\ name[2] = "_"

\* entry.iter('SItemPortLoadoutEntryParams'): the entry itself, then its
\* descendants, in document order.
IterEntries(t, entry) == Filter(t, <<entry>> \o Descendants(t, entry, 1), EntryTag)

\* The (size, missile_id) tuples of the MISL_ entries among `entries`.
RECURSIVE MissilesOf(_, _, _)
MissilesOf(t, entries, default) ==
    IF entries = <<>> THEN <<>>
    ELSE (IF IsMissile(t[Head(entries)].cls)
          THEN << <<MissileSize(t[Head(entries)].cls, default), Lower(t[Head(entries)].cls)>> >>
          ELSE <<>>)
         \o MissilesOf(t, Tail(entries), default)

\* 'torpedo' in port_name, on the lowered port names of the sample documents.
HasTorpedo(port_name) == port_name \in {"hardpoint_torpedo_1"}

\* Lines 39-67: the missiles of one entry, <<>> when it gets none.  The
\* torpedo branch is an elif of the rack branch.
RackMissiles(t, entry) ==
    LET port_name == LowerPort(t[entry].port)
        entity_class == t[entry].cls
    IN  IF is_missile_rack(entity_class)
        THEN MissilesOf(t, IterEntries(t, entry), 2)
        ELSE IF HasTorpedo(port_name) /\ is_missile_rack(entity_class)
        THEN MissilesOf(t, IterEntries(t, entry), 5)
        ELSE <<>>

\* The loop over root.iter('SItemPortLoadoutEntryParams').
RECURSIVE MissileLoop(_, _, _)
MissileLoop(t, entries, missile_loadouts) ==
    IF entries = <<>> THEN missile_loadouts
    ELSE LET missiles == RackMissiles(t, Head(entries)) IN
         MissileLoop(t, Tail(entries),
                     IF missiles # <<>>
                     THEN DictSet(missile_loadouts, LowerPort(t[Head(entries)].port), missiles)
                     ELSE missile_loadouts)

extract_missiles_from_xml(t) == MissileLoop(t, FindAll(t, 0, EntryTag), <<>>)

\* Racks and a mount, on torpedo and missile ports, holding missiles with
\* and without a size in the name and a gun.
RackClasses == { <<"MRCK", "_", "s2">>, <<"mrck", "_", "torp">>, <<"Mount", "_", "gimbal">> }

RackPorts == {"Hardpoint_Torpedo_1", "hardpoint_torpedo_1", "Hardpoint_Missile_1",
              "hardpoint_turret_1"}

MissileClasses ==
    { <<"MISL", "_", "S02">>, <<"misl", "_", "s03">>, <<"MISL", "_", "torp">>,
      <<"MISL", "_", "S09">>, <<"KLWE", "_", "laser">> }

MissileChoices == [port : {"missile_attach_1"}, cls : MissileClasses]

MissileDocuments ==
    { CarrierTree(port, cls, subs) :
        port \in RackPorts, cls \in RackClasses,
        subs \in UNION {[1..n -> MissileChoices] : n \in 1..MaxNested} }

InitMissiles ==
    /\ NoRuns
    /\ \E t \in MissileDocuments : args = [tree |-> t]
    /\ result = "none"
    /\ pc = "ready"

ExtractMissiles ==
    /\ pc = "ready"
    /\ result' = [missile_loadouts |-> extract_missiles_from_xml(args.tree)]
    /\ pc' = "done"
    /\ UNCHANGED <<args, mergeVars>>

NextMissiles == ExtractMissiles

SpecMissiles == InitMissiles /\ [][NextMissiles]_vars

\* The tuples stored for the rack at element 1.
RackTuples(t) == DictGet(result.missile_loadouts, LowerPort(t[1].port), <<>>)

\* The size a missile without a number in its name has among the rack's
\* tuples: every tuple of such a missile has size `size`.
UnsizedHaveSize(t, size) ==
    \A k \in DOMAIN RackTuples(t) :
       (\E i \in EntriesOf(t) : /\ IsMissile(t[i].cls)
                                /\ SizeMatches(t[i].cls) = {}
                                /\ Lower(t[i].cls) = RackTuples(t)[k][2])
       => RackTuples(t)[k][1] = size

\* C27: for a missile rack on a port whose name contains 'torpedo', a nested
\* MISL_ entry whose name carries no size number is given size 5; on any
\* other rack port it is given size 2.
C27_TorpedoRackDefaultSize ==
    (pc = "done" /\ is_missile_rack(args.tree[1].cls)) =>
       IF HasTorpedo(LowerPort(args.tree[1].port))
       THEN UnsizedHaveSize(args.tree, 5)
       ELSE UnsizedHaveSize(args.tree, 2)

\* What the code has: size 2 on every rack port, torpedo or not.
C27_EveryRackDefaultsToTwo ==
    (pc = "done" /\ is_missile_rack(args.tree[1].cls)) => UnsizedHaveSize(args.tree, 2)


\* ---------------------------------------------------------------------------
\* extract_ship_loadouts.py: update_ship_with_loadout
\* ---------------------------------------------------------------------------

MaxSubPorts == 2

\* JSON null.
None == <<"null">>

KlweLaser == <<"klwe", "_", "laser">>
VnclPlasma == <<"vncl", "_", "plasma">>
BehrGun == <<"behr", "_", "gun">>

\* Variant: every sub-port in range takes the loadout's weapon.
SubPortOpenAlways(sp) == TRUE

\* sp.get('default_weapon') is None
SubPortOpen(sp) == sp.default_weapon = None

\* The body of `for i, sp in enumerate(sub_ports)`: the sub-port after it,
\* and whether updated was incremented.
UpdateSubPort(sp, i, weapons, weapons_db) ==
    IF SubPortOpen(sp) /\ i - 1 < Len(weapons) /\ weapons[i] \in weapons_db
    THEN [sp |-> [sp EXCEPT !.default_weapon = weapons[i]], updated |-> 1]
    ELSE [sp |-> sp, updated |-> 0]

\* The body of `for hp in ship_data.get('weapon_hardpoints', [])`.
UpdateHardpoint(hp, loadouts, weapons_db) ==
    LET port_name == LowerPort(hp.port_name)
        weapons == DictGet(loadouts, port_name, <<>>)
        subs == [i \in DOMAIN hp.sub_ports |->
                    UpdateSubPort(hp.sub_ports[i], i, weapons, weapons_db)]
    IN  IF weapons = <<>> THEN [hp |-> hp, updated |-> 0]
        ELSE [hp |-> [hp EXCEPT !.sub_ports = [i \in DOMAIN subs |-> subs[i].sp]],
              updated |-> SumSeq([i \in DOMAIN subs |-> subs[i].updated])]

\* The ship data after the call and the count returned.
update_ship_with_loadout(ship_data, loadouts, weapons_db) ==
    LET hps == [h \in DOMAIN ship_data.weapon_hardpoints |->
                   UpdateHardpoint(ship_data.weapon_hardpoints[h], loadouts, weapons_db)]
    IN  [ship_data |-> [ship_data EXCEPT
                           !.weapon_hardpoints = [h \in DOMAIN hps |-> hps[h].hp]],
         updated |-> SumSeq([h \in DOMAIN hps |-> hps[h].updated])]

SubPort(size, default_weapon) == [size |-> size, default_weapon |-> default_weapon]

SubPortLists ==
    UNION {[1..n -> {SubPort(1, None), SubPort(1, BehrGun)}] : n \in 0..MaxSubPorts}

HardpointPool ==
    [port_name : {"hardpoint_turret_1", "Hardpoint_Missile_1"}, sub_ports : SubPortLists]

HardpointLists ==
    { <<h>> : h \in HardpointPool }
    \cup { <<h, g>> : h \in HardpointPool,
                      g \in {k \in HardpointPool : k.port_name = "hardpoint_turret_1"} }

\* Loadouts as extract_ship_loadout returns them: lowered ports, no empty list.
SampleLoadouts ==
    { << [k |-> "hardpoint_turret_1", v |-> <<KlweLaser, VnclPlasma>>] >>,
      << [k |-> "hardpoint_turret_1", v |-> <<VnclPlasma, KlweLaser, KlweLaser>>],
         [k |-> "hardpoint_missile_1", v |-> <<KlweLaser>>] >>,
      << [k |-> "hardpoint_gun_5", v |-> <<KlweLaser>>] >> }

WeaponDatabases == { {}, {KlweLaser}, {KlweLaser, BehrGun} }

InitUpdate ==
    /\ NoRuns
    /\ \E hps \in HardpointLists : \E l \in SampleLoadouts : \E db \in WeaponDatabases :
          args = [ship_data |-> [weapon_hardpoints |-> hps], loadouts |-> l, weapons_db |-> db]
    /\ result = "none"
    /\ pc = "ready"

UpdateLoadout ==
    /\ pc = "ready"
    /\ result' = update_ship_with_loadout(args.ship_data, args.loadouts, args.weapons_db)
    /\ pc' = "done"
    /\ UNCHANGED <<args, mergeVars>>

NextUpdate == UpdateLoadout

SpecUpdate == InitUpdate /\ [][NextUpdate]_vars

BeforeHps == args.ship_data.weapon_hardpoints
AfterHps == result.ship_data.weapon_hardpoints

\* The sub-ports (hardpoint, index) of the ship data.
SubPortIds == {<<h, i>> : h \in DOMAIN BeforeHps, i \in 1..MaxSubPorts + 1}

HasSubPort(id) == id[2] \in DOMAIN BeforeHps[id[1]].sub_ports

WeaponBefore(id) == BeforeHps[id[1]].sub_ports[id[2]].default_weapon
WeaponAfter(id) == AfterHps[id[1]].sub_ports[id[2]].default_weapon

\* C28: update_ship_with_loadout never changes a sub-port whose
\* default_weapon is already set, and the count it returns is the number of
\* sub-ports whose default_weapon went from null to a weapon id present in
\* the weapons database.
C28_SetSubPortsKept ==
    pc = "done" =>
       /\ DOMAIN AfterHps = DOMAIN BeforeHps
       /\ \A h \in DOMAIN BeforeHps :
             DOMAIN AfterHps[h].sub_ports = DOMAIN BeforeHps[h].sub_ports
       /\ \A id \in SubPortIds :
             (HasSubPort(id) /\ WeaponBefore(id) # None) => WeaponAfter(id) = WeaponBefore(id)
       /\ result.updated =
             Cardinality({id \in SubPortIds : /\ HasSubPort(id)
                                              /\ WeaponBefore(id) = None
                                              /\ WeaponAfter(id) # None
                                              /\ WeaponAfter(id) \in args.weapons_db})
       /\ \A id \in SubPortIds :
             (HasSubPort(id) /\ WeaponBefore(id) = None /\ WeaponAfter(id) # None)
             => WeaponAfter(id) \in args.weapons_db

\* A call that fills a null sub-port beside one that was already set, whose
\* loadout has a weapon for the set one too.
C28_Witness ==
    /\ pc = "done"
    /\ result.updated >= 1
    /\ \E id \in SubPortIds :
          /\ HasSubPort(id)
          /\ WeaponBefore(id) # None
          /\ id[2] <= Len(DictGet(args.loadouts, LowerPort(BeforeHps[id[1]].port_name), <<>>))
          /\ DictGet(args.loadouts, LowerPort(BeforeHps[id[1]].port_name), <<>>)[id[2]]
                \in args.weapons_db


\* ---------------------------------------------------------------------------
\* The three record updaters run one after another, in any order, on one
\* vehicle whose sources do not change.
\* ---------------------------------------------------------------------------

\* The body of `for hp in ship_data.get('weapon_hardpoints', [])` of
\* fix_missiles.main (lines 130-158): the hardpoint after it and what is
\* added to missiles_fixed.
FixHardpoint(hp, missile_loadouts) ==
    LET port_name == LowerPort(hp.port_name)
        missiles == DictGet(missile_loadouts, port_name, <<>>)
        new_sub_ports == [k \in DOMAIN missiles |-> SubPort(missiles[k][1], missiles[k][2])]
    IN  IF DictHas(missile_loadouts, port_name)
           /\ new_sub_ports # <<>> /\ new_sub_ports # hp.sub_ports
        THEN [hp |-> [hp EXCEPT !.sub_ports = new_sub_ports], fixed |-> Len(new_sub_ports)]
        ELSE [hp |-> hp, fixed |-> 0]

\* Lines 128-158 on the whole record.
FixMissiles(ship_data, missile_loadouts) ==
    LET hps == [h \in DOMAIN ship_data.weapon_hardpoints |->
                   FixHardpoint(ship_data.weapon_hardpoints[h], missile_loadouts)]
    IN  [ship_data |-> [ship_data EXCEPT
                           !.weapon_hardpoints = [h \in DOMAIN hps |-> hps[h].hp]],
         missiles_fixed |-> SumSeq([h \in DOMAIN hps |-> hps[h].fixed])]

MislS02 == <<"misl", "_", "s02">>

\* A ship document with a turret that holds a gun and a rack that holds a
\* missile with a size in its name and one without.
TurretAndRackTree ==
    << Element(0, EntryTag, "hardpoint_turret_1", <<"Mount", "_", "gimbal">>),
       Other(1, "loadout"), Other(2, "SItemPortLoadoutManualParams"), Other(3, "entries"),
       Element(4, EntryTag, "hardpoint_gun_5", <<"KLWE", "_", "laser">>),
       Element(0, EntryTag, "Hardpoint_Missile_1", <<"MRCK", "_", "s2">>),
       Other(6, "loadout"), Other(7, "SItemPortLoadoutManualParams"), Other(8, "entries"),
       Element(9, EntryTag, "missile_attach_1", <<"MISL", "_", "S02">>),
       Element(9, EntryTag, "missile_attach_2", <<"MISL", "_", "torp">>) >>

ConvergeDocuments ==
    { TurretAndRackTree,
      CarrierTree("Hardpoint_Missile_1", <<"MRCK", "_", "missile">>,
                  << [port |-> "missile_attach_1", cls |-> <<"MISL", "_", "S02">>] >>),
      CarrierTree("hardpoint_turret_1", <<"KLWE", "_", "laser">>, << >>) }

\* The weapon hardpoints of the persisted record: a missile hardpoint and a
\* turret hardpoint.
ConvergeHardpoints ==
    { << [port_name |-> "Hardpoint_Missile_1", sub_ports |-> m],
         [port_name |-> "hardpoint_turret_1", sub_ports |-> g] >> :
        m \in SubPortLists, g \in { <<SubPort(1, None)>>, <<SubPort(1, BehrGun), SubPort(1, None)>> } }

ConvergeRecords ==
    { ShipRecord("ok", JsonObject("absent", EmptyComponents),
                 JsonObject("absent", EmptyThrusters), hps) : hps \in ConvergeHardpoints }

InitConverge ==
    /\ NoRuns
    /\ \E t \in ConvergeDocuments : \E x \in SampleShipXmls \ {y \in SampleShipXmls : y.kind = "none"} :
       \E db \in { {KlweLaser}, {KlweLaser, MislS02} } :
          args = [tree |-> t, hp_totals |-> SampleTotals[x], weapons_db |-> db]
    /\ \E rec \in ConvergeRecords :
          result = [record |-> rec, ran |-> {}, wrote |-> FALSE, ever |-> FALSE, extra |-> FALSE]
    /\ pc = "start"

\* What a run leaves: the record it wrote, if it wrote one.
RunOver(script, wrote, record) ==
    /\ result' = [record |-> IF wrote THEN record ELSE result.record,
                  ran |-> result.ran \cup {script},
                  wrote |-> wrote,
                  ever |-> result.ever \/ wrote,
                  extra |-> result.ran = Scripts]
    /\ pc' = script
    /\ UNCHANGED <<args, mergeVars>>

\* extract_component_hp: lines 218-261 for the vehicle.
RunComponentHp ==
    LET st == Merge(result.record, args.hp_totals) IN
    RunOver("extract_component_hp",
            SumTotals(args.hp_totals) # 0 /\ ~st.error /\ WriteNeeded(st), st.data)

\* extract_ship_loadouts.main: lines 285-296 for the vehicle.
RunLoadouts ==
    LET loadouts == extract_ship_loadout(args.tree)
        upd == update_ship_with_loadout(result.record, loadouts, args.weapons_db)
    IN  RunOver("extract_ship_loadouts", loadouts # <<>> /\ upd.updated > 0, upd.ship_data)

\* fix_missiles.main: lines 123-164 for the vehicle.
RunMissiles ==
    LET missile_loadouts == extract_missiles_from_xml(args.tree)
        fix == FixMissiles(result.record, missile_loadouts)
    IN  RunOver("fix_missiles", missile_loadouts # <<>> /\ fix.missiles_fixed > 0, fix.ship_data)

NextConverge == RunComponentHp \/ RunLoadouts \/ RunMissiles

SpecConverge == InitConverge /\ [][NextConverge]_vars

\* C29: once extract_component_hp, extract_ship_loadouts and fix_missiles
\* have each run once, in any order, on unchanged source data, any further
\* run of any of the three writes no persisted record.
C29_FixedPointAfterEachRanOnce ==
    [][ result.ran = Scripts => (~result'.wrote /\ result'.record = result.record) ]_vars

\* A further run of fix_missiles after all three have run, where some
\* earlier run wrote the record and its missile sub-ports now hold weapons.
C29_Witness ==
    /\ result.extra
    /\ pc = "fix_missiles"
    /\ result.ever
    /\ result.record.components.kind = "dict"
    /\ \E k \in DOMAIN result.record.weapon_hardpoints[1].sub_ports :
          result.record.weapon_hardpoints[1].sub_ports[k].default_weapon = MislS02


\* ---------------------------------------------------------------------------
\* The port-name chain of extract_component_hp_from_ship and
\* categorize_hardpoints on the same port name
\* ---------------------------------------------------------------------------

\* Tokens of the port names given to both: the keywords of either chain and
\* the tokens that make 'powerplant', 'power_plant' and 'shield_generator'.
AgreePortTokens == PortTokens \cup {"_", "plant", "generator"}

\* Entity ids with none of categorize_hardpoints' entity keywords
\* ('thruster', 'turret', 'armr_').
PlainEntities == { <<"laser">>, <<"thr", "_", "main">> }

\* The list categorize_hardpoints put the single item in.
CategoryOf(categories) == CHOOSE c \in CategorySet : categories[c] # <<>>

InitAgree ==
    /\ NoRuns
    /\ args \in [port : NamesUpTo(AgreePortTokens, MaxPortLen), entity : PlainEntities]
    /\ result = "none"
    /\ pc = "ready"

\* Both classifiers on the port name.
ClassifyBoth ==
    /\ pc = "ready"
    /\ result' = [component_type |-> ComponentType(args.port),
                  category |-> CategoryOf(categorize_hardpoints(
                                             <<[k |-> args.port, v |-> args.entity]>>))]
    /\ pc' = "done"
    /\ UNCHANGED <<args, mergeVars>>

NextAgree == ClassifyBoth

SpecAgree == InitAgree /\ [][NextAgree]_vars

\* The categories of categorize_hardpoints a component type stands for.
CategoriesFor(component_type) ==
    CASE component_type = "turret_total_hp"     -> {"turrets"}
      [] component_type = "powerplant_total_hp" -> {"powerplant"}
      [] component_type = "cooler_total_hp"     -> {"cooler"}
      [] component_type = "shield_gen_total_hp" -> {"shield"}
      [] component_type = "qd_total_hp"         -> {"quantumdrive"}
      [] component_type = "thruster_total_hp"   -> {"thrusters"}
      [] OTHER                                  -> {"armor", "weapons", "missiles", "other"}

\* C30: for every port name, the category extract_component_hp_from_ship
\* derives from it is the category categorize_hardpoints assigns to it when
\* the entity id has no keyword, none standing for armor, weapon, missile or
\* other.
C30_ClassifiersAgree ==
    pc = "done" => result.category \in CategoriesFor(result.component_type)

\* What the code has: the two agree on port names without 'power', 'shield'
\* or 'armor' that do not hold both 'thruster' and 'turret'.
C30_AgreeOnUnambiguousPorts ==
    (/\ pc = "done"
     /\ \A kw \in {"power", "shield", "armor"} : ~Has(kw, args.port)
     /\ ~(Has("thruster", args.port) /\ Has("turret", args.port)))
    => result.category \in CategoriesFor(result.component_type)

====
